---- MODULE Spec2Model ----
(***************************************************************************)
(* Semantic governance kernel of the Sovereignty Stack "Core":             *)
(*   - SAGE, the governance decision engine        (src/core/sage.py)      *)
(*   - CoreStorage, the SQLite store               (src/core/storage.py)   *)
(*   - Reasoner.ingest / Reasoner.reason           (src/core/reasoner.py)  *)
(*   - TemporalIndexer.record_event       (src/core/kronos/temporal_...)   *)
(*   - StructuredImporter's batch provenance (src/core/ingest/...)         *)
(*   - ShadowLedger.log_pulse, the bus ledger   (src/core/provenance.py)   *)
(*   - the HTTP handlers' responses             (src/core/core_api.py)     *)
(*   - KronosEngine.calculate_trust_decay  (src/core/kronos/kronos_...)    *)
(*                                                                         *)
(* Scores are kept in thousandths (the code rounds them to 3 decimals):    *)
(* 0.8 is 800.  The clock counts whole days; datetime.utcnow() reads it.   *)
(***************************************************************************)
EXTENDS Integers, Sequences, FiniteSets, TLC

VARIABLES
    clock,          \* datetime.utcnow(), in days
    pulse,          \* the governance.validate pulse being delivered to SAGE
    emitted,        \* the pulses SAGE emitted in answer to it, oldest first
    provenance_log, \* table provenance_log of the shadow ledger, in rowid order
    objects,        \* table objects, in rowid order
    vectors,        \* table vectors, keyed by object_id
    sage_metadata,  \* table sage_metadata, keyed by object_id
    relations,      \* table relations, in rowid order
    provenance,     \* table provenance, in rowid order
    kronos_ready,   \* whether table kronos_events exists
    kronos_events,  \* table kronos_events, in rowid (AUTOINCREMENT id) order
    pc,             \* per worker thread: the statement it is about to run
    loc,            \* per worker thread: the locals of the running operation
    outcome,        \* how the operation that ended last ended, as its caller sees it
    call,           \* the last call of a function of the kernel: arguments and result
    listeners,      \* PulseBus.listeners: topic -> handlers in registration order
    event_history,  \* PulseBus.event_history, oldest first
    is_awake        \* ShadowLedger.is_awake

vars == <<clock, pulse, emitted, provenance_log, objects, vectors, sage_metadata, relations,
          provenance, kronos_ready, kronos_events, pc, loc, outcome, call,
          listeners, event_history, is_awake>>

storeVars == <<objects, vectors, sage_metadata, relations, provenance,
               kronos_ready, kronos_events>>
threadVars == <<pc, loc, outcome>>
busVars == <<pulse, emitted, provenance_log, listeners, event_history, is_awake>>

-----------------------------------------------------------------------------
(* Bounds of the model *)

MaxClock == 1
MaxChain == 2
MaxDecisions == 2
MaxObjects == 2
MaxBatches == 1
MaxPulses == 2
MaxRows == 12
MaxVaried == 3

-----------------------------------------------------------------------------
(* Python values *)

None == "None"

\* dict.get(key, default)
Get(d, k, default) == IF k \in DOMAIN d THEN d[k] ELSE default

\* datetime.isoformat() of the day d; any other text is not ISO-8601
IsoFormat(d) == [kind |-> "iso", day |-> d]
NotIso == [kind |-> "text", day |-> 0]

Min(a, b) == IF a <= b THEN a ELSE b

\* round(n / d) to the nearest integer, d > 0 (no exact ties arise below)
RoundDiv(n, d) == (2 * n + d) \div (2 * d)

\* numpy vectors are pairs of integers whose norm is an integer
Vectors == {<<0, 0>>, <<1, 0>>, <<0, 1>>, <<4, 3>>}

Dot(a, b) == a[1] * b[1] + a[2] * b[2]

\* np.linalg.norm
Norm(v) == CHOOSE n \in 0..10 : n * n = Dot(v, v)

\* an absent vector (Python None where an array is expected)
NoVector == <<>>

\* the empty dict
EmptyDict == [k \in {} |-> 0]

-----------------------------------------------------------------------------
(* SAGE: the governance decision engine (src/core/sage.py) *)

COHERENCE_THRESHOLD == 750
TRUST_THRESHOLD == 700

AllowCoherence == 800
AllowTrust == 700
FlagCoherence == 600
FlagTrust == 500
NeutralTrust == 500

required_fields == {"object_type", "data"}
trusted_sources == {"SAGE", "Core", "Mirror.UI"}

\* coherence = completeness * 0.6 + vector_quality * 0.4, rounded to 3 decimals.
\* completeness = present / 2;  vector_quality = min(1.0, magnitude / 1.5),
\* kept as vq3 / 3 with vq3 = min(3, 2 * magnitude).
coherence_check(obj, vector) ==
    LET present == Cardinality({f \in required_fields : f \in DOMAIN obj})
        vq3 == IF vector = NoVector THEN 3 ELSE Min(3, 2 * Norm(vector))
    IN  RoundDiv(900 * present + 400 * vq3, 3)

\* coherence_check of a vector that is read only through its norm, num / den:
\* vector_quality = min(1.0, (num / den) / 1.5)
coherence_check_norm(obj, num, den) ==
    LET present == Cardinality({f \in required_fields : f \in DOMAIN obj})
        vq == Min(3 * den, 2 * num)
    IN  RoundDiv(900 * present * den + 400 * vq, 3 * den)

\* datetime.fromisoformat: raises ValueError on text that is not ISO-8601
fromisoformat(ts) == [exc |-> ts.kind # "iso", day |-> ts.day]

\* 30 * age_score of the chain's last element, without the except clause
age_score_uncaught(first_event, now) ==
    LET created_at == fromisoformat(Get(first_event, "timestamp", NotIso))
    IN  IF created_at.exc
        THEN [exc |-> TRUE, val |-> 0]
        ELSE [exc |-> FALSE, val |-> Min(30, now - created_at.day)]

\* try: age_score = min(1.0, (utcnow() - fromisoformat(timestamp)).days / 30.0)
\* except: age_score = 0.0            (val is 30 * age_score)
age_score(first_event, now) ==
    LET created_at == fromisoformat(Get(first_event, "timestamp", NotIso))
    IN  IF created_at.exc
        THEN [exc |-> FALSE, val |-> 0]
        ELSE [exc |-> FALSE, val |-> Min(30, now - created_at.day)]

\* trust = validation_score * 0.4 + credibility * 0.4 + age_score * 0.2, rounded
\* to 3 decimals; [exc, val] with exc TRUE when an exception leaves the method
trust_score(object_id, provenance_chain, now) ==
    IF provenance_chain = <<>>
    THEN [exc |-> FALSE, val |-> NeutralTrust]
    ELSE
      LET n == Len(provenance_chain)
          validations == Cardinality({i \in 1..n :
                             Get(provenance_chain[i], "action", None) = "validated"})
          v3 == Min(3, validations)          \* 3 * validation_score
          credible == Cardinality({i \in 1..n :
                             Get(provenance_chain[i], "actor", "unknown") \in trusted_sources})
          first_event == provenance_chain[n]  \* provenance_chain[-1]
          age == age_score(first_event, now)
      IN  [exc |-> age.exc,
           val |-> RoundDiv(4000 * v3 * n + 12000 * credible + 200 * age.val * n, 30 * n)]

\* the f-string formatting {x:.2f}: two decimals
Fmt2(x) == RoundDiv(x, 10)

\* the decision logic with strict comparisons (> where the code has >=)
decision_logic_strict(coherence, trust) ==
    IF coherence > AllowCoherence /\ trust > AllowTrust
    THEN [decision |-> "allow", validated |-> TRUE,
          rationale |-> [text |-> "Object meets coherence and trust thresholds",
                         args |-> <<>>]]
    ELSE IF coherence > FlagCoherence /\ trust > FlagTrust
    THEN [decision |-> "flag", validated |-> FALSE,
          rationale |-> [text |-> "Object marginally coherent, flagged for review",
                         args |-> <<>>]]
    ELSE [decision |-> "deny", validated |-> FALSE,
          rationale |-> [text |-> "Coherence {:.2f} or trust {:.2f} below threshold",
                         args |-> <<Fmt2(coherence), Fmt2(trust)>>]]

\* the decision logic of validate_object: if / elif / else, first match wins
decision_logic(coherence, trust) ==
    IF coherence >= AllowCoherence /\ trust >= AllowTrust
    THEN [decision |-> "allow", validated |-> TRUE,
          rationale |-> [text |-> "Object meets coherence and trust thresholds",
                         args |-> <<>>]]
    ELSE IF coherence >= FlagCoherence /\ trust >= FlagTrust
    THEN [decision |-> "flag", validated |-> FALSE,
          rationale |-> [text |-> "Object marginally coherent, flagged for review",
                         args |-> <<>>]]
    ELSE [decision |-> "deny", validated |-> FALSE,
          rationale |-> [text |-> "Coherence {:.2f} or trust {:.2f} below threshold",
                         args |-> <<Fmt2(coherence), Fmt2(trust)>>]]

\* what a call that raised leaves its caller with
Raised == [raised |-> TRUE, coherence_score |-> 0, trust_score |-> 0,
           validated |-> FALSE, decision |-> "none",
           rationale |-> [text |-> "", args |-> <<>>],
           thresholds |-> [coherence |-> 0, trust |-> 0]]

\* SAGE.validate_object(obj, vector, provenance) evaluated when the clock reads
\* now; "provenance or []" maps an absent chain to the empty one, <<>> here
\* (validate_object_scored: the body of validate_object after coherence_check)
validate_object_scored(coherence, obj, chain, now) ==
    LET trust == trust_score(Get(obj, "id", "unknown"), chain, now)
        d == decision_logic(coherence, trust.val)
    IN  IF trust.exc THEN Raised
        ELSE [raised |-> FALSE,
              coherence_score |-> coherence,
              trust_score |-> trust.val,
              validated |-> d.validated,
              decision |-> d.decision,
              rationale |-> d.rationale,
              thresholds |-> [coherence |-> COHERENCE_THRESHOLD,
                              trust |-> TRUST_THRESHOLD]]

validate_object(obj, vector, chain, now) ==
    validate_object_scored(coherence_check(obj, vector), obj, chain, now)

-----------------------------------------------------------------------------
(* SAGE on the bus: the governance.validate handler (sage.py, on_validate_request) *)

\* provenance events a request may carry: dicts, any key may be missing
ChainEvents ==
    { [action |-> "validated", actor |-> "SAGE", timestamp |-> IsoFormat(-40)],
      [action |-> "ingested", actor |-> "mallory", timestamp |-> IsoFormat(-10)],
      [action |-> "validated", actor |-> "SAGE", timestamp |-> IsoFormat(-24)],
      [action |-> "validated", actor |-> "Core", timestamp |-> IsoFormat(1)],
      [action |-> "ingested", actor |-> "mallory", timestamp |-> IsoFormat(15)],
      [action |-> "ingested", timestamp |-> NotIso],
      [actor |-> "Mirror.UI"] }

Chains == UNION {[1..n -> ChainEvents] : n \in 0..MaxChain}

SageObjects ==
    { [id |-> "obj-1", object_type |-> "Transaction", data |-> "fields"],
      [id |-> "obj-1", object_type |-> "Transaction"],
      EmptyDict }

SageVectors == {NoVector, <<0, 0>>, <<1, 0>>, <<4, 3>>}

Payloads ==
    {[object |-> o, vector |-> v, provenance |-> c] :
         o \in SageObjects, v \in SageVectors, c \in Chains}
    \cup {[object |-> o] : o \in SageObjects}
    \cup {EmptyDict}

SagePulses ==
    {[id |-> "pulse_1", source |-> "mirror", payload |-> pl] : pl \in Payloads}
    \cup {EmptyDict}

\* the locals of on_validate_request for the pulse p
RequestObject(p) == Get(Get(p, "payload", EmptyDict), "object", EmptyDict)
RequestVector(p) == Get(Get(p, "payload", EmptyDict), "vector", NoVector)
RequestChain(p) == Get(Get(p, "payload", EmptyDict), "provenance", <<>>)

\* result = self.validate_object(obj, vector, provenance)
Evaluate(p, now) ==
    validate_object(RequestObject(p), RequestVector(p), RequestChain(p), now)

\* a governance.validate pulse is put on the bus
EmitValidate(p) ==
    /\ pulse' = <<p>>
    /\ emitted' = <<>>
    /\ UNCHANGED <<call, clock, provenance_log, listeners, event_history, is_awake,
                   storeVars, threadVars>>

\* on_validate_request: evaluate, emit governance.decision, then audit.log;
\* an exception leaves the handler before anything is emitted (the bus records it)
OnValidateRequest ==
    /\ pulse # <<>>
    /\ Len(emitted) < 2 * MaxDecisions
    /\ LET p == pulse[1]
           result == Evaluate(p, clock)
       IN  emitted' =
             IF result.raised THEN emitted
             ELSE emitted \o
                  << [topic |-> "governance.decision",
                      request_id |-> Get(p, "id", None),
                      source |-> Get(p, "source", None),
                      decision |-> result.decision,
                      validation |-> result,
                      timestamp |-> IsoFormat(clock)],
                     [topic |-> "audit.log",
                      event |-> "governance.validation",
                      object_id |-> Get(RequestObject(p), "id", "unknown"),
                      decision |-> result.decision,
                      coherence |-> result.coherence_score,
                      trust |-> result.trust_score,
                      timestamp |-> IsoFormat(clock)] >>
    /\ UNCHANGED <<call, clock, pulse, provenance_log, listeners, event_history,
                   is_awake, storeVars, threadVars>>

\* the worker threads serving requests
Threads == {"w1", "w2"}

\* no request is being served
Idle == \A t \in Threads : pc[t] = "idle"

\* a day ends, between requests
Tick ==
    /\ Idle
    /\ outcome.op = "none"
    /\ clock < MaxClock
    /\ clock' = clock + 1
    /\ UNCHANGED <<call, busVars, storeVars, threadVars>>

-----------------------------------------------------------------------------
(* CoreStorage: the SQLite store (src/core/storage.py) *)

\* uuid.uuid4(): the n-th id of a kind; ids of different rows never collide
Uuid(kind, n) == <<kind, n>>
NoId == <<"none", 0>>

\* json.dumps / json.loads of a dict of JSON values
json_dumps(d) == [json |-> d]
json_loads(text) == text.json

\* int(validated) as stored in the BOOLEAN column, bool(row[3]) when read back
int_of(b) == IF b THEN 1 ELSE 0
bool_of(n) == n # 0

\* serialize_vector: astype(float32).tobytes(); deserialize_vector: frombuffer
serialize_vector(vector) == [dtype |-> "float32", buffer |-> vector]
deserialize_vector(blob) == blob.buffer

\* a keyed table after INSERT OR REPLACE of the row with primary key k
Upsert(table, k, row) ==
    [i \in DOMAIN table \cup {k} |-> IF i = k THEN row ELSE table[i]]

\* save_object with object_id = None: a fresh uuid, one row inserted
save_object(table, object_type, data, now) ==
    Append(table, [id |-> Uuid("obj", Len(table) + 1),
                   object_type |-> object_type,
                   data |-> json_dumps(data),
                   created_at |-> IsoFormat(now),
                   updated_at |-> IsoFormat(now)])

\* get_object: the row as a dict, or <<>> for None
get_object(table, object_id) ==
    LET hits == {i \in 1..Len(table) : table[i].id = object_id}
    IN  IF hits = {} THEN <<>>
        ELSE LET row == table[CHOOSE i \in hits : TRUE]
             IN  <<[id |-> row.id, object_type |-> row.object_type,
                    data |-> json_loads(row.data),
                    created_at |-> row.created_at,
                    updated_at |-> row.updated_at]>>

\* query_objects(object_type): the rows of that type, in rowid order
query_objects(table, object_type) ==
    SelectSeq(table, LAMBDA row : row.object_type = object_type)

save_vector(table, object_id, embedding, model, dimension, now) ==
    Upsert(table, object_id,
           [object_id |-> object_id, embedding |-> embedding, model |-> model,
            dimension |-> dimension, created_at |-> IsoFormat(now)])

\* save_sage_metadata with the two scores bound to each other's column
save_sage_metadata_swapped(table, object_id, coherence, trust, validated, now) ==
    Upsert(table, object_id,
           [object_id |-> object_id, coherence_score |-> trust,
            trust_score |-> coherence, validated |-> int_of(validated),
            validated_at |-> IsoFormat(now)])

save_sage_metadata(table, object_id, coherence, trust, validated, now) ==
    Upsert(table, object_id,
           [object_id |-> object_id, coherence_score |-> coherence,
            trust_score |-> trust, validated |-> int_of(validated),
            validated_at |-> IsoFormat(now)])

\* get_sage_metadata: the row as a dict, or <<>> for None
get_sage_metadata(table, object_id) ==
    IF object_id \notin DOMAIN table THEN <<>>
    ELSE LET row == table[object_id]
         IN  <<[object_id |-> row.object_id,
                coherence_score |-> row.coherence_score,
                trust_score |-> row.trust_score,
                validated |-> bool_of(row.validated),
                validated_at |-> row.validated_at]>>

save_relation(table, source_id, target_id, relation_type, similarity_score, now) ==
    Append(table, [id |-> Uuid("rel", Len(table) + 1),
                   source_id |-> source_id, target_id |-> target_id,
                   relation_type |-> relation_type,
                   similarity_score |-> similarity_score,
                   created_at |-> IsoFormat(now)])

\* log_provenance as INSERT OR REPLACE keyed by object_id: an earlier event of
\* the same object is overwritten
log_provenance_replace(table, object_id, action, actor, metadata, now) ==
    LET row == [id |-> Uuid("prov", Len(table) + 1), object_id |-> object_id,
                action |-> action, actor |-> actor,
                metadata |-> json_dumps(metadata), timestamp |-> IsoFormat(now)]
    IN  IF table # <<>>
        THEN [table EXCEPT ![Len(table)] = row]
        ELSE Append(table, row)

\* log_provenance: one row inserted, nothing else touched
log_provenance(table, object_id, action, actor, metadata, now) ==
    Append(table, [id |-> Uuid("prov", Len(table) + 1), object_id |-> object_id,
                   action |-> action, actor |-> actor,
                   metadata |-> json_dumps(metadata), timestamp |-> IsoFormat(now)])

\* vector.tobytes(): the buffer in the array's own dtype
tobytes(vector) == [buffer |-> vector]

\* TemporalIndexer.record_event: one row inserted into kronos_events
record_event(table, object_id, event_type, vector, coherence, trust, metadata, now) ==
    Append(table, [id |-> Len(table) + 1, object_id |-> object_id,
                   timestamp |-> IsoFormat(now), event_type |-> event_type,
                   vector |-> IF vector = NoVector THEN NoVector ELSE tobytes(vector),
                   coherence_score |-> coherence,
                   trust_score |-> trust,
                   metadata |-> json_dumps(metadata)])

\* rows sorted by keys[i] descending (ORDER BY ... DESC); rows with equal keys keep their order
SortDescBy(rows, keys) ==
    LET n == Len(rows)
        pos(i) == 1 + Cardinality({j \in 1..n : keys[j] > keys[i]})
                    + Cardinality({j \in 1..(i - 1) : keys[j] = keys[i]})
    IN  [k \in 1..n |-> rows[CHOOSE i \in 1..n : pos(i) = k]]

\* the first limit elements: rows[:limit], SQL LIMIT
Take(rows, limit) == SubSeq(rows, 1, Min(limit, Len(rows)))

\* ORDER BY a key ascending as SQLite returns it from an index on that key:
\* rows of equal key in rowid order, the order in which they were inserted
SortAscBy(rows, keys) ==
    LET n == Len(rows)
        pos(i) == 1 + Cardinality({j \in 1..n : keys[j] < keys[i]})
                    + Cardinality({j \in 1..(i - 1) : keys[j] = keys[i]})
    IN  [k \in 1..n |-> rows[CHOOSE i \in 1..n : pos(i) = k]]

\* np.frombuffer(blob, dtype=np.float32) of a stored vector
frombuffer(blob) == blob.buffer

\* the rows of one object in the order of idx_kronos_object_time, the index on
\* (object_id, timestamp) that SQLite walks for the three queries below
object_time_index(table, object_id) ==
    LET found == SelectSeq(table, LAMBDA row : row.object_id = object_id)
    IN  SortAscBy(found, [i \in 1..Len(found) |-> found[i].timestamp.day])

\* what get_baseline and get_latest return of a row
event_dict(row) ==
    [timestamp |-> row.timestamp,
     vector |-> IF row.vector # NoVector THEN frombuffer(row.vector) ELSE NoVector,
     coherence_score |-> row.coherence_score,
     trust_score |-> row.trust_score,
     metadata |-> json_loads(row.metadata)]

\* get_baseline taking, of the baseline events of the earliest timestamp, the
\* one inserted last
get_baseline_last_inserted(table, object_id) ==
    LET rows == SelectSeq(object_time_index(table, object_id),
                          LAMBDA row : row.event_type = "baseline")
        earliest == SelectSeq(rows, LAMBDA row : row.timestamp = rows[1].timestamp)
    IN  IF rows = <<>> THEN <<>> ELSE <<event_dict(earliest[Len(earliest)])>>

\* TemporalIndexer.get_baseline(object_id): WHERE object_id = ? AND event_type =
\* 'baseline' ORDER BY timestamp ASC LIMIT 1; <<>> for None
get_baseline(table, object_id) ==
    LET rows == SelectSeq(object_time_index(table, object_id),
                          LAMBDA row : row.event_type = "baseline")
    IN  IF rows = <<>> THEN <<>> ELSE <<event_dict(rows[1])>>

\* TemporalIndexer.get_latest(object_id): WHERE object_id = ? ORDER BY timestamp
\* DESC LIMIT 1, the index walked backwards; <<>> for None
get_latest(table, object_id) ==
    LET rows == object_time_index(table, object_id)
    IN  IF rows = <<>> THEN <<>>
        ELSE LET row == rows[Len(rows)]
             IN  <<[timestamp |-> row.timestamp,
                    event_type |-> row.event_type,
                    vector |-> event_dict(row).vector,
                    coherence_score |-> row.coherence_score,
                    trust_score |-> row.trust_score,
                    metadata |-> json_loads(row.metadata)]>>

\* TemporalIndexer.get_timeline(object_id, limit): ORDER BY timestamp ASC LIMIT ?
get_timeline(table, object_id, limit) ==
    LET rows == Take(object_time_index(table, object_id), limit)
    IN  [i \in 1..Len(rows) |->
           [timestamp |-> rows[i].timestamp, event_type |-> rows[i].event_type,
            coherence_score |-> rows[i].coherence_score,
            trust_score |-> rows[i].trust_score,
            metadata |-> json_loads(rows[i].metadata)]]

\* get_vector: the row as a dict, or <<>> for None
get_vector(table, object_id) ==
    IF object_id \in DOMAIN table THEN <<table[object_id]>> ELSE <<>>

\* get_relations: WHERE source_id = ? OR target_id = ?
\*                ORDER BY similarity_score DESC LIMIT ?
get_relations(table, object_id, limit) ==
    LET rows == SelectSeq(table, LAMBDA row :
                    row.source_id = object_id \/ row.target_id = object_id)
    IN  Take(SortDescBy(rows, [i \in 1..Len(rows) |-> rows[i].similarity_score]),
             limit)

\* get_provenance: WHERE object_id = ? ORDER BY timestamp DESC
get_provenance(table, object_id) ==
    LET found == SelectSeq(table, LAMBDA row : row.object_id = object_id)
        rows == SortDescBy(found, [i \in 1..Len(found) |-> found[i].timestamp.day])
    IN  [i \in 1..Len(rows) |->
           [id |-> rows[i].id, object_id |-> rows[i].object_id,
            action |-> rows[i].action, actor |-> rows[i].actor,
            metadata |-> json_loads(rows[i].metadata),
            timestamp |-> rows[i].timestamp]]

-----------------------------------------------------------------------------
(* Ontology: the schema validator (src/core/ontology.py, ontology_validator.py) *)

\* the object types the ontology files define, with their required properties
OntologyTypes == {"Transaction"}
RequiredProperties == <<"amount", "date">>

\* OntologyValidator.validate: the list of errors, empty when valid
validate(obj, object_type) ==
    IF object_type \notin OntologyTypes
    THEN << <<"Unknown object type", object_type>> >>
    ELSE LET missing == SelectSeq(RequiredProperties, LAMBDA prop : prop \notin DOMAIN obj)
         IN  [i \in 1..Len(missing) |-> <<"Missing required property", missing[i]>>]

\* Ontology.validate_and_normalize: (is_valid, normalized, errors)
validate_and_normalize(obj, object_type) ==
    LET errors == validate(obj, object_type)
        normalized == [k \in DOMAIN obj \cup {"object_type"} |->
                          IF k \in DOMAIN obj THEN obj[k] ELSE object_type]
    IN  [is_valid |-> (errors = <<>>), normalized |-> normalized, errors |-> errors]

-----------------------------------------------------------------------------
(* Embeddings (src/core/embeddings.py) *)

EMBEDDING_DIM == 384
RelationThreshold == 800
RelationTopK == 10
InferThreshold == 750
InferTopK == 5
ReasonRelationLimit == 10

\* what the embedding provider may return for an object
EmbedOutputs == {<<0, 0>>, <<1, 0>>, <<4, 3>>}

\* cosine_similarity, in thousandths; a zero vector has similarity 0
cosine_similarity(a, b) ==
    IF Norm(a) = 0 \/ Norm(b) = 0 THEN 0
    ELSE RoundDiv(1000 * Dot(a, b), Norm(a) * Norm(b))

\* find_similar sorting ascending and reversing: equal similarities come out
\* in the reverse of the candidates' order
find_similar_reversed(query_vector, candidate_vectors, top_k) ==
    LET n == Len(candidate_vectors)
        similarities == [i \in 1..n |->
                           [id |-> candidate_vectors[n + 1 - i].id,
                            sim |-> cosine_similarity(query_vector,
                                        candidate_vectors[n + 1 - i].vector)]]
    IN  Take(SortDescBy(similarities,
                        [i \in 1..Len(similarities) |-> similarities[i].sim]), top_k)

\* find_similar: (id, similarity) sorted by similarity descending, first top_k
find_similar(query_vector, candidate_vectors, top_k) ==
    LET similarities == [i \in 1..Len(candidate_vectors) |->
                           [id |-> candidate_vectors[i].id,
                            sim |-> cosine_similarity(query_vector,
                                                      candidate_vectors[i].vector)]]
    IN  Take(SortDescBy(similarities,
                        [i \in 1..Len(similarities) |-> similarities[i].sim]), top_k)

\* semantic_neighbors: find_similar, then the threshold filter
semantic_neighbors(vector, all_vectors, threshold, top_k) ==
    SelectSeq(find_similar(vector, all_vectors, top_k), LAMBDA x : x.sim >= threshold)

SIMILARITY_THRESHOLD == 800

compatible_pairs ==
    { <<"Transaction", "Transaction">>, <<"Transaction", "Account">>,
      <<"Account", "Account">>, <<"Forecast", "Transaction">>,
      <<"Document", "Document">>, <<"Concept", "Concept">> }

\* SAGE.validate_relation: (valid, reason)
validate_relation(source_type, target_type, similarity) ==
    IF similarity < SIMILARITY_THRESHOLD
    THEN [valid |-> FALSE, reason |-> "Similarity too low"]
    ELSE IF <<source_type, target_type>> \notin compatible_pairs
            /\ <<target_type, source_type>> \notin compatible_pairs
    THEN [valid |-> FALSE, reason |-> "Incompatible types"]
    ELSE [valid |-> TRUE, reason |-> "Relation validated"]

-----------------------------------------------------------------------------
(* Reasoner (src/core/reasoner.py) and its callers *)

\* what a request may carry: (object_type, data), and the actor
Requests ==
    { <<"Transaction", [amount |-> 5, date |-> "2025-01-01"]>>,
      <<"Transaction", [memo |-> "lunch"]>>,
      <<"Widget", [amount |-> 5, date |-> "2025-01-01"]>> }
Actors == {"system"}

\* the provenance chain SAGE is handed: [] in Reasoner.ingest
\* the chain of an object that was validated twice by trusted actors
AuditedObjectChain ==
    << [action |-> "validated", actor |-> "SAGE", timestamp |-> IsoFormat(-40)],
       [action |-> "validated", actor |-> "Core", timestamp |-> IsoFormat(-40)] >>

NewObjectChain == <<>>

\* chains a governance pass over an object with a history would hand to SAGE
AdmitChains ==
    { <<>>,
      << [action |-> "validated", actor |-> "SAGE", timestamp |-> IsoFormat(-40)],
         [action |-> "validated", actor |-> "Core", timestamp |-> IsoFormat(-40)] >>,
      << [action |-> "ingested", timestamp |-> NotIso] >> }

NoScore == -1      \* a score that is None

NoError == [type |-> "none", msg |-> "", errors |-> <<>>,
            rationale |-> [text |-> "", args |-> <<>>]]

NoLocals == [op |-> "none", object_type |-> "", data |-> EmptyDict, actor |-> "",
             object_id |-> NoId, embedding |-> NoVector, sage |-> Raised]

\* object_type, data, object_id, sage and embedding are the arguments and locals
\* of the operation when it ended
NoOutcome == [op |-> "none", status |-> "none",
              object_type |-> "", data |-> EmptyDict, object_id |-> NoId,
              sage |-> Raised, embedding |-> NoVector,
              error |-> NoError, result |-> EmptyDict]

\* the statements of ingest that call the store
StoreCalls == {"save_object", "save_vector", "enforce", "log_provenance",
               "record_event", "find_relations", "reason"}

\* Reasoner._find_relations: the relations table after the neighbours are stored
RECURSIVE store_relations(_, _, _, _, _)
store_relations(table, object_id, object_type, neighbors, now) ==
    IF neighbors = <<>> THEN table
    ELSE LET neighbor == Head(neighbors)
             ok == validate_relation(object_type, object_type, neighbor.sim).valid
         IN  store_relations(
                 IF ok THEN save_relation(table, object_id, neighbor.id,
                                          "semantic_similarity", neighbor.sim, now)
                       ELSE table,
                 object_id, object_type, Tail(neighbors), now)

\* the (id, vector) of every candidate but the object itself that has a vector
candidate_vectors(object_id, object_type) ==
    LET candidates == SelectSeq(query_objects(objects, object_type),
                         LAMBDA c : c.id # object_id
                                    /\ get_vector(vectors, c.id) # <<>>)
    IN  [i \in 1..Len(candidates) |->
           [id |-> candidates[i].id,
            vector |-> deserialize_vector(
                           get_vector(vectors, candidates[i].id)[1].embedding)]]

find_relations(object_id, embedding, object_type, now) ==
    store_relations(relations, object_id, object_type,
        semantic_neighbors(embedding, candidate_vectors(object_id, object_type),
                           RelationThreshold, RelationTopK),
        now)

\* {"id": obj["id"], **obj["data"], "created_at": ..., "updated_at": ...}
symbolic_of(obj) ==
    [k \in {"id", "created_at", "updated_at"} \cup DOMAIN obj.data |->
        IF k = "created_at" THEN obj.created_at
        ELSE IF k = "updated_at" THEN obj.updated_at
        ELSE IF k \in DOMAIN obj.data THEN obj.data[k]
        ELSE obj.id]

\* Reasoner.reason: <<>> when the object is not found (ValueError), else the
\* ReasonedObject; sanitize_for_json leaves this dict of JSON values as it is
reason(object_id) ==
    LET found == get_object(objects, object_id)
    IN  IF found = <<>> THEN <<>>
        ELSE
          LET obj == found[1]
              vector_data == get_vector(vectors, object_id)
              has_embedding == vector_data # <<>>
              sage == get_sage_metadata(sage_metadata, object_id)
              rels == get_relations(relations, object_id, ReasonRelationLimit)
          IN  <<[object |-> obj.object_type,
                 symbolic |-> symbolic_of(obj),
                 vector |->
                   [has_embedding |-> has_embedding,
                    dimension |-> IF has_embedding THEN EMBEDDING_DIM ELSE NoScore,
                    coherence |-> IF sage # <<>> THEN sage[1].coherence_score
                                  ELSE NoScore,
                    relations |->
                      [i \in 1..Len(rels) |->
                         [id |-> IF rels[i].source_id = object_id
                                 THEN rels[i].target_id ELSE rels[i].source_id,
                          type |-> rels[i].relation_type,
                          similarity |-> rels[i].similarity_score]]],
                 provenance |-> get_provenance(provenance, object_id),
                 sage |-> IF sage # <<>> THEN sage[1]
                          ELSE [coherence_score |-> NoScore,
                                trust_score |-> NoScore,
                                validated |-> FALSE]]>>

\* Reasoner.infer_relations(object_id, top_k): [ok, relations]
infer_relations(object_id, top_k) ==
    LET found == get_object(objects, object_id)
        vector_data == get_vector(vectors, object_id)
    IN  IF found = <<>> \/ vector_data = <<>> THEN [ok |-> FALSE, relations |-> <<>>]
        ELSE
          LET neighbors == semantic_neighbors(
                              deserialize_vector(vector_data[1].embedding),
                              candidate_vectors(object_id, found[1].object_type),
                              InferThreshold, top_k)
          IN  [ok |-> TRUE,
               relations |-> [i \in 1..Len(neighbors) |->
                                [id |-> neighbors[i].id,
                                 similarity |-> neighbors[i].sim]]]

-----------------------------------------------------------------------------
(* The operations, one action per statement that calls the store or the       *)
(* embedding provider (the suspension points of a request)                    *)

\* the caller of the operation that ended last has taken its response
Ready == outcome = NoOutcome

\* the caller takes the response
Respond ==
    /\ ~Ready
    /\ outcome' = NoOutcome
    /\ UNCHANGED <<call, clock, busVars, storeVars, pc, loc>>

\* the operation of thread t ends: its locals go, the caller sees out
Finish(t, out) ==
    /\ pc' = [pc EXCEPT ![t] = "idle"]
    /\ loc' = [loc EXCEPT ![t] = NoLocals]
    /\ outcome' = out

\* the operation op ends with an exception of this type and message
Failure(op, locals, type, msg) ==
    [op |-> op, status |-> "error",
     object_type |-> locals.object_type, data |-> locals.data,
     object_id |-> locals.object_id,
     sage |-> locals.sage, embedding |-> locals.embedding,
     error |-> [NoError EXCEPT !.type = type, !.msg = msg],
     result |-> EmptyDict]

\* the operation op returns result
Success(op, locals, result) ==
    [op |-> op, status |-> "ok",
     object_type |-> locals.object_type, data |-> locals.data,
     object_id |-> locals.object_id,
     sage |-> locals.sage, embedding |-> locals.embedding,
     error |-> NoError, result |-> result]

\* ingest that saves the object before it validates it
IngestSaveFirst(t, object_type, data, actor) ==
    /\ Ready
    /\ pc[t] = "idle"
    /\ Len(objects) < MaxObjects
    /\ objects' = save_object(objects, object_type, data, clock)
    /\ LET v == validate_and_normalize(data, object_type)
       IN  IF ~v.is_valid
           THEN Finish(t, [Failure("ingest",
                                   [NoLocals EXCEPT !.object_type = object_type,
                                                    !.data = data],
                                   "ValueError", "Ontology validation failed")
                             EXCEPT !.error.errors = v.errors])
           ELSE /\ pc' = [pc EXCEPT ![t] = "embed"]
                /\ loc' = [loc EXCEPT ![t] =
                             [NoLocals EXCEPT !.op = "ingest",
                                              !.object_type = object_type,
                                              !.data = v.normalized,
                                              !.actor = actor,
                                              !.object_id = Uuid("obj", Len(objects) + 1)]]
                /\ UNCHANGED outcome
    /\ UNCHANGED <<call, clock, busVars, vectors, sage_metadata, relations, provenance,
                   kronos_ready, kronos_events>>

\* ingest, step 1: validate against the ontology; ValueError when invalid
StartIngest(t, object_type, data, actor) ==
    /\ Ready
    /\ pc[t] = "idle"
    /\ LET v == validate_and_normalize(data, object_type)
       IN  IF ~v.is_valid
           THEN Finish(t, [Failure("ingest",
                                   [NoLocals EXCEPT !.object_type = object_type,
                                                    !.data = data],
                                   "ValueError", "Ontology validation failed")
                             EXCEPT !.error.errors = v.errors])
           ELSE /\ pc' = [pc EXCEPT ![t] = "save_object"]
                /\ loc' = [loc EXCEPT ![t] =
                             [NoLocals EXCEPT !.op = "ingest",
                                              !.object_type = object_type,
                                              !.data = v.normalized,
                                              !.actor = actor]]
                /\ UNCHANGED outcome
    /\ UNCHANGED <<call, clock, busVars, storeVars>>

\* POST /api/core/ingest: reasoner.ingest(object_type, data, actor), for as many
\* objects as the model stores
Ingest(t, object_type, data, actor) ==
    /\ validate_and_normalize(data, object_type).is_valid
          => Len(objects) + Cardinality({u \in Threads : pc[u] = "save_object"})
                < MaxObjects
    /\ StartIngest(t, object_type, data, actor)

\* StructuredImporter.ingest_file, one row of the file: reasoner.ingest of a
\* Transaction made of the row, the batch id and the row number
ImportRow(t, row, actor) ==
    /\ Len(objects) < MaxRows
    /\ pc[t] = "idle"
    /\ StartIngest(t, "Transaction",
                   [k \in DOMAIN row \cup {"batch_id", "row_number"} |->
                       IF k = "batch_id" THEN Uuid("batch", 1)
                       ELSE IF k = "row_number" THEN Len(objects) + 1
                       ELSE row[k]],
                   actor)

\* step 2: object_id = self.storage.save_object(object_type, normalized_data)
SaveObject(t) ==
    /\ Ready
    /\ pc[t] = "save_object"
    /\ objects' = save_object(objects, loc[t].object_type, loc[t].data, clock)
    /\ loc' = [loc EXCEPT ![t].object_id = Uuid("obj", Len(objects) + 1)]
    /\ pc' = [pc EXCEPT ![t] = "embed"]
    /\ UNCHANGED <<call, clock, busVars, vectors, sage_metadata, relations, provenance,
                   kronos_ready, kronos_events, outcome>>

\* step 3: embedding = embed_object(...), whatever the provider returns
Embed(t, embedding) ==
    /\ Ready
    /\ pc[t] = "embed"
    /\ loc' = [loc EXCEPT ![t].embedding = embedding]
    /\ pc' = [pc EXCEPT ![t] = "save_vector"]
    /\ UNCHANGED <<call, clock, busVars, storeVars, outcome>>

\* EmbedFails taking the object row back
EmbedFailsRollsBack(t) ==
    /\ Ready
    /\ pc[t] = "embed"
    /\ objects' = SelectSeq(objects, LAMBDA row : row.id # loc[t].object_id)
    /\ Finish(t, Failure("ingest", loc[t], "EmbeddingError",
                         "embedding provider failed"))
    /\ UNCHANGED <<call, clock, busVars, vectors, sage_metadata, relations,
                   provenance, kronos_ready, kronos_events>>

\* step 3 when the provider fails: the exception leaves ingest
EmbedFails(t) ==
    /\ Ready
    /\ pc[t] = "embed"
    /\ Finish(t, Failure("ingest", loc[t], "EmbeddingError",
                         "embedding provider failed"))
    /\ UNCHANGED <<call, clock, busVars, storeVars>>

\* step 4: self.storage.save_vector(object_id, serialize_vector(embedding), ...)
SaveVector(t) ==
    /\ Ready
    /\ pc[t] = "save_vector"
    /\ vectors' = save_vector(vectors, loc[t].object_id,
                              serialize_vector(loc[t].embedding),
                              "all-MiniLM-L6-v2", EMBEDDING_DIM, clock)
    /\ pc' = [pc EXCEPT ![t] = "sage"]
    /\ UNCHANGED <<call, clock, busVars, objects, sage_metadata, relations, provenance,
                   kronos_ready, kronos_events, loc, outcome>>

\* step 5: sage_metadata = self.sage.validate_object(obj, embedding, chain)
RunSage(t, chain) ==
    /\ Ready
    /\ pc[t] = "sage"
    /\ LET result == validate_object(
                        [id |-> loc[t].object_id,
                         object_type |-> loc[t].object_type,
                         data |-> loc[t].data],
                        loc[t].embedding, chain, clock)
       IN  IF result.raised
           THEN /\ Finish(t, Failure("ingest", loc[t],
                                     "Exception", "validate_object raised"))
           ELSE /\ loc' = [loc EXCEPT ![t].sage = result]
                /\ pc' = [pc EXCEPT ![t] = "enforce"]
                /\ UNCHANGED outcome
    /\ UNCHANGED <<call, clock, busVars, storeVars>>

\* the metadata of a denied event without the scores
denied_metadata_bare(object_type, sage) ==
    [object_type |-> object_type,
     reason |-> sage.rationale]

\* the metadata of a denied event
denied_metadata(object_type, sage) ==
    [object_type |-> object_type,
     reason |-> sage.rationale,
     coherence_score |-> sage.coherence_score,
     trust_score |-> sage.trust_score]

\* the deny branch raising before it logs: the denial is never written
LogDeniedRaiseFirst(t) ==
    /\ Ready
    /\ pc[t] = "enforce"
    /\ loc[t].sage.decision = "deny"
    /\ Finish(t, [Failure("ingest", loc[t], "ValueError", "SAGE denied object")
                    EXCEPT !.error.rationale = loc[t].sage.rationale])
    /\ UNCHANGED <<call, clock, busVars, storeVars>>

\* the deny branch with the SAGE metadata stored before the decision is enforced
LogDeniedStoresMetadata(t) ==
    /\ Ready
    /\ pc[t] = "enforce"
    /\ loc[t].sage.decision = "deny"
    /\ sage_metadata' = save_sage_metadata(sage_metadata, loc[t].object_id,
                                           loc[t].sage.coherence_score,
                                           loc[t].sage.trust_score,
                                           loc[t].sage.validated, clock)
    /\ provenance' = log_provenance(provenance, loc[t].object_id, "denied",
                                    loc[t].actor,
                                    denied_metadata(loc[t].object_type, loc[t].sage),
                                    clock)
    /\ Finish(t, [Failure("ingest", loc[t], "ValueError", "SAGE denied object")
                    EXCEPT !.error.rationale = loc[t].sage.rationale])
    /\ UNCHANGED <<call, clock, busVars, objects, vectors, relations,
                   kronos_ready, kronos_events>>

\* step 6, decision deny: log the denial, then raise ValueError("SAGE denied ...")
LogDenied(t) ==
    /\ Ready
    /\ pc[t] = "enforce"
    /\ loc[t].sage.decision = "deny"
    /\ provenance' = log_provenance(provenance, loc[t].object_id, "denied",
                                    loc[t].actor,
                                    denied_metadata(loc[t].object_type, loc[t].sage),
                                    clock)
    /\ Finish(t, [Failure("ingest", loc[t], "ValueError", "SAGE denied object")
                    EXCEPT !.error.rationale = loc[t].sage.rationale])
    /\ UNCHANGED <<call, clock, busVars, objects, vectors, sage_metadata, relations,
                   kronos_ready, kronos_events>>

\* step 7, decision allow or flag: store the SAGE metadata
\* SaveSageMetadata writing the row of the object created last
SaveSageMetadataOfNewest(t) ==
    /\ Ready
    /\ pc[t] = "enforce"
    /\ loc[t].sage.decision # "deny"
    /\ sage_metadata' = save_sage_metadata(sage_metadata,
                                           Uuid("obj", Len(objects)),
                                           loc[t].sage.coherence_score,
                                           loc[t].sage.trust_score,
                                           loc[t].sage.validated, clock)
    /\ pc' = [pc EXCEPT ![t] = "log_provenance"]
    /\ UNCHANGED <<call, clock, busVars, objects, vectors, relations, provenance,
                   kronos_ready, kronos_events, loc, outcome>>

SaveSageMetadata(t) ==
    /\ Ready
    /\ pc[t] = "enforce"
    /\ loc[t].sage.decision # "deny"
    /\ sage_metadata' = save_sage_metadata(sage_metadata, loc[t].object_id,
                                           loc[t].sage.coherence_score,
                                           loc[t].sage.trust_score,
                                           loc[t].sage.validated, clock)
    /\ pc' = [pc EXCEPT ![t] = "log_provenance"]
    /\ UNCHANGED <<call, clock, busVars, objects, vectors, relations, provenance,
                   kronos_ready, kronos_events, loc, outcome>>

\* the metadata of an ingested or flagged event
admitted_metadata(object_type, sage) ==
    [object_type |-> object_type,
     validated |-> sage.validated,
     decision |-> sage.decision,
     rationale |-> sage.rationale]

\* action = "ingested" if decision == "allow" else "flagged"
admitted_action_not_denied(decision) ==
    IF decision # "deny" THEN "ingested" ELSE "flagged"

admitted_action(decision) == IF decision = "allow" THEN "ingested" ELSE "flagged"

\* step 8: log provenance with the decision
LogProvenance(t) ==
    /\ Ready
    /\ pc[t] = "log_provenance"
    /\ provenance' = log_provenance(provenance, loc[t].object_id,
                                    admitted_action(loc[t].sage.decision),
                                    loc[t].actor,
                                    admitted_metadata(loc[t].object_type, loc[t].sage),
                                    clock)
    /\ pc' = [pc EXCEPT ![t] = "record_event"]
    /\ UNCHANGED <<call, clock, busVars, objects, vectors, sage_metadata, relations,
                   kronos_ready, kronos_events, loc, outcome>>

\* the metadata of the baseline event
baseline_metadata(actor, decision, object_type) ==
    [actor |-> actor, decision |-> decision, object_type |-> object_type]

\* step 9: self.kronos.record_event(object_id, "baseline", embedding, scores, ...)
RecordBaseline(t) ==
    /\ Ready
    /\ pc[t] = "record_event"
    /\ kronos_ready
    /\ kronos_events' = record_event(kronos_events, loc[t].object_id, "baseline",
                                     loc[t].embedding,
                                     loc[t].sage.coherence_score,
                                     loc[t].sage.trust_score,
                                     baseline_metadata(loc[t].actor,
                                                       loc[t].sage.decision,
                                                       loc[t].object_type),
                                     clock)
    /\ pc' = [pc EXCEPT ![t] = "find_relations"]
    /\ UNCHANGED <<call, clock, busVars, objects, vectors, sage_metadata, relations,
                   provenance, kronos_ready, loc, outcome>>

\* step 9 on a store without the kronos_events table: the INSERT raises
\* sqlite3.OperationalError, which leaves ingest
RecordBaselineNoTable(t) ==
    /\ Ready
    /\ pc[t] = "record_event"
    /\ ~kronos_ready
    /\ Finish(t, Failure("ingest", loc[t],
                         "OperationalError", "no such table: kronos_events"))
    /\ UNCHANGED <<call, clock, busVars, storeVars>>

\* step 10: relations = self._find_relations(object_id, embedding, object_type)
FindRelations(t) ==
    /\ Ready
    /\ pc[t] = "find_relations"
    /\ relations' = find_relations(loc[t].object_id, loc[t].embedding,
                                   loc[t].object_type, clock)
    /\ pc' = [pc EXCEPT ![t] = "reason"]
    /\ UNCHANGED <<call, clock, busVars, objects, vectors, sage_metadata, provenance,
                   kronos_ready, kronos_events, loc, outcome>>

\* step 11: return self.reason(object_id)
ReturnReasoned(t) ==
    /\ Ready
    /\ pc[t] = "reason"
    /\ LET reasoned == reason(loc[t].object_id)
       IN  Finish(t, IF reasoned = <<>>
                     THEN Failure("ingest", loc[t], "ValueError", "Object not found")
                     ELSE Success("ingest", loc[t], reasoned[1]))
    /\ UNCHANGED <<call, clock, busVars, storeVars>>

\* a store call of ingest fails (sqlite3 error): get_connection rolls back and
\* re-raises, and the exception leaves ingest
StoreFails(t) ==
    /\ Ready
    /\ pc[t] \in StoreCalls
    /\ Finish(t, Failure("ingest", loc[t], "StoreError", pc[t]))
    /\ UNCHANGED <<call, clock, busVars, storeVars>>

\* a read that logs its access in the ledger
ReasonLogsAccess(object_id) ==
    /\ Ready
    /\ provenance' = log_provenance(provenance, object_id, "accessed", "system",
                                    EmptyDict, clock)
    /\ LET reasoned == reason(object_id)
           asked == [NoLocals EXCEPT !.object_id = object_id]
       IN  outcome' = IF reasoned = <<>>
                      THEN Failure("reason", asked, "ValueError", "Object not found")
                      ELSE Success("reason", asked, reasoned[1])
    /\ UNCHANGED <<call, clock, busVars, objects, vectors, sage_metadata, relations,
                   kronos_ready, kronos_events, pc, loc>>

\* a read that stamps the object it returns as updated after the read
ReasonTouchesObject(object_id) ==
    /\ Ready
    /\ objects' = [i \in 1..Len(objects) |->
                     IF objects[i].id = object_id
                     THEN [objects[i] EXCEPT !.updated_at = IsoFormat(clock + 1)]
                     ELSE objects[i]]
    /\ LET reasoned == reason(object_id)
           asked == [NoLocals EXCEPT !.object_id = object_id]
       IN  outcome' = IF reasoned = <<>>
                      THEN Failure("reason", asked, "ValueError", "Object not found")
                      ELSE Success("reason", asked, reasoned[1])
    /\ UNCHANGED <<call, clock, busVars, vectors, sage_metadata, relations, provenance,
                   kronos_ready, kronos_events, pc, loc>>

\* a read that answers an unknown id with an empty governed object
ReasonDefaultsMissing(object_id) ==
    /\ Ready
    /\ LET reasoned == reason(object_id)
           asked == [NoLocals EXCEPT !.object_id = object_id]
       IN  outcome' = IF reasoned = <<>>
                      THEN Success("reason", asked, [object |-> None])
                      ELSE Success("reason", asked, reasoned[1])
    /\ UNCHANGED <<call, clock, busVars, storeVars, pc, loc>>

\* Reasoner.reason(object_id) called on its own (GET /api/core/object/{id})
Reason(object_id) ==
    /\ Ready
    /\ LET reasoned == reason(object_id)
           asked == [NoLocals EXCEPT !.object_id = object_id]
       IN  outcome' = IF reasoned = <<>>
                      THEN Failure("reason", asked, "ValueError", "Object not found")
                      ELSE Success("reason", asked, reasoned[1])
    /\ UNCHANGED <<call, clock, busVars, storeVars, pc, loc>>

\* Reasoner.infer_relations(object_id) called on its own (FindSimilar)
InferRelations(object_id) ==
    /\ Ready
    /\ LET similar == infer_relations(object_id, InferTopK)
           asked == [NoLocals EXCEPT !.object_id = object_id]
       IN  outcome' = IF ~similar.ok
                      THEN Failure("infer_relations", asked, "ValueError",
                                   "Object not found")
                      ELSE Success("infer_relations", asked,
                                   [relations |-> similar.relations])
    /\ UNCHANGED <<call, clock, busVars, storeVars, pc, loc>>

\* initialize_kronos_tables(storage): CREATE TABLE IF NOT EXISTS kronos_events
InitializeKronosTables ==
    /\ Ready
    /\ ~kronos_ready
    /\ kronos_ready' = TRUE
    /\ UNCHANGED <<call, clock, busVars, objects, vectors, sage_metadata, relations,
                   provenance, kronos_events, threadVars>>

\* StructuredImporter.ingest_file: the batch provenance entries it logs around
\* the rows (each row goes through Ingest)
BatchLog(action, actor) ==
    /\ Ready
    /\ Idle
    /\ Cardinality({i \in 1..Len(provenance) : provenance[i].action = action})
          < MaxBatches
    /\ action = "batch_ingest_completed" =>
          Cardinality({i \in 1..Len(provenance) :
                          provenance[i].action = "batch_ingest_completed"})
          < Cardinality({i \in 1..Len(provenance) :
                          provenance[i].action = "batch_ingest_started"})
    /\ LET n == Cardinality({i \in 1..Len(provenance) :
                                provenance[i].action = action}) + 1
       IN  provenance' = log_provenance(provenance, Uuid("batch", n), action, actor,
                                        [batch_id |-> Uuid("batch", n),
                                         status |-> action],
                                        clock)
    /\ UNCHANGED <<call, clock, busVars, objects, vectors, sage_metadata, relations,
                   kronos_ready, kronos_events, threadVars>>

-----------------------------------------------------------------------------
(* ShadowLedger (src/core/provenance.py): the pulse-native provenance log, in  *)
(* a database of its own                                                      *)

\* the pulses the ledger may be handed
LedgerPulses ==
    { [id |-> "pulse_1", topic |-> "governance.decision", source |-> "sage",
       payload |-> [decision |-> "flag"]] }

\* the row log_pulse inserts for the pulse p
log_pulse(table, p, now) ==
    Append(table,
           [id |-> Len(table) + 1,
            pulse_id |-> Get(p, "id", "unknown"),
            topic |-> Get(p, "topic", "unknown"),
            source |-> Get(p, "source", "unknown"),
            target |-> Get(p, "target", "unknown"),
            intent |-> Get(p, "intent", "unknown"),
            event_type |-> Get(p, "event_type", "pulse"),
            timestamp |-> Get(p, "timestamp", IsoFormat(now)),
            payload |-> json_dumps(Get(p, "payload", EmptyDict)),
            metadata |-> json_dumps(Get(p, "metadata", EmptyDict)),
            coherence |-> Get(Get(p, "metadata", EmptyDict), "coherence", 0),
            logged_at |-> IsoFormat(now)])

\* ShadowLedger.log_pulse(pulse)
LogPulse(p) ==
    /\ Ready
    /\ Len(provenance_log) < MaxPulses
    /\ provenance_log' = log_pulse(provenance_log, p, clock)
    /\ UNCHANGED <<call, clock, pulse, emitted, listeners, event_history, is_awake,
                   storeVars, threadVars>>

\* log_pulse when sqlite3 fails: the except clause logs the error and returns
LogPulseFails(p) ==
    /\ Ready
    /\ Len(provenance_log) < MaxPulses
    /\ UNCHANGED vars

MaxQueries == 2

\* the shadow.query pulses that ask for the rows of one pulse id
ShadowQueries ==
    { [id |-> "query_1", topic |-> "shadow.query", source |-> "mirror",
       payload |-> [object_id |-> "pulse_1"]],
      [id |-> "query_2", topic |-> "shadow.query", source |-> "mirror",
       payload |-> [object_id |-> "pulse_9"]] }

\* ShadowLedger.query_provenance(object_id) with the other filters left None:
\* WHERE pulse_id = ? ORDER BY timestamp DESC LIMIT ?
query_provenance(table, object_id, limit) ==
    LET found == SelectSeq(table, LAMBDA row : row.pulse_id = object_id)
        rows == Take(SortDescBy(found, [i \in 1..Len(found) |->
                                          found[i].timestamp.day]), limit)
    IN  [i \in 1..Len(rows) |->
           [id |-> rows[i].id, pulse_id |-> rows[i].pulse_id,
            topic |-> rows[i].topic, source |-> rows[i].source,
            target |-> rows[i].target, intent |-> rows[i].intent,
            event_type |-> rows[i].event_type, timestamp |-> rows[i].timestamp,
            payload |-> json_loads(rows[i].payload),
            metadata |-> json_loads(rows[i].metadata),
            coherence |-> rows[i].coherence, logged_at |-> rows[i].logged_at]]

\* the shadow.query_result pulse on_query emits
query_result(p, results, now) ==
    [topic |-> "shadow.query_result", request_id |-> Get(p, "id", None),
     results |-> results, count |-> Len(results), timestamp |-> IsoFormat(now)]

\* ShadowLedger's on_query handler answering the shadow.query pulse p
OnQuery(p) ==
    /\ Ready
    /\ Len(emitted) < MaxQueries
    /\ emitted' = Append(emitted,
                         query_result(p, query_provenance(provenance_log,
                                             Get(Get(p, "payload", EmptyDict),
                                                 "object_id", None), 100),
                                      clock))
    /\ UNCHANGED <<call, clock, pulse, provenance_log, listeners, event_history,
                   is_awake, storeVars, threadVars>>

\* on_query when sqlite3 fails in query_provenance: the except clause logs the
\* error and returns [], which the handler emits as the result
OnQueryFails(p) ==
    /\ Ready
    /\ Len(emitted) < MaxQueries
    /\ emitted' = Append(emitted, query_result(p, <<>>, clock))
    /\ UNCHANGED <<call, clock, pulse, provenance_log, listeners, event_history,
                   is_awake, storeVars, threadVars>>

-----------------------------------------------------------------------------
(* The HTTP API (src/core/core_api.py): what the handlers make of a result *)

\* the "sage" part of the response of ingest_object and of get_object: the
\* decision is read from the reasoned object's sage dict, "allow" when absent
response_sage(reasoned) ==
    [coherence_score |-> reasoned.sage.coherence_score,
     trust_score |-> reasoned.sage.trust_score,
     is_validated |-> reasoned.sage.validated,
     decision |-> Get(reasoned.sage, "decision", "allow")]

\* get_object: the response built from Reasoner.reason's result
get_object_response(reasoned) ==
    [object_id |-> reasoned.symbolic.id,
     type |-> reasoned.object,
     sage |-> response_sage(reasoned),
     vector |-> [has_embedding |-> reasoned.vector.has_embedding,
                 dimension |-> reasoned.vector.dimension,
                 relations_count |-> Len(reasoned.vector.relations)],
     provenance |-> [created_at |-> reasoned.symbolic.created_at,
                     updated_at |-> reasoned.symbolic.updated_at,
                     events_count |-> Len(reasoned.provenance)]]

\* get_object: the status code; ValueError is 404, any other exception 500
get_object_status(out) ==
    IF out.status = "ok" THEN 200
    ELSE IF out.error.type = "ValueError" THEN 404
    ELSE 500

-----------------------------------------------------------------------------
(* KronosEngine (src/core/kronos/kronos_engine.py): trust decay.  Times are in *)
(* days, multiples of ten; trust in thousandths.                               *)

trust_half_life_days == 30
min_trust == 100

Max(a, b) == IF a >= b THEN a ELSE b

RECURSIVE Pow2(_)
Pow2(n) == IF n = 0 THEN 1 ELSE 2 * Pow2(n - 1)

\* 10^6 * 2^(-r/30) for r = 0..29 days into a half-life
HalfLifeFraction(r) ==
    <<1000000, 977160, 954842, 933033, 911722, 890899,
       870551, 850667, 831238, 812252, 793701, 775572,
       757858, 740549, 723635, 707107, 690956, 675175,
       659754, 644685, 629961, 615572, 601513, 587774,
       574349, 561231, 548412, 535887, 523647, 511687>>[r + 1]

\* math.exp(-decay_constant * delta) with decay_constant = ln(2) / half_life,
\* that is 2^(-delta / half_life), in millionths
decay_factor(delta) ==
    LET halvings == delta \div trust_half_life_days
        r == delta % trust_half_life_days
    IN  IF halvings >= 0
        THEN HalfLifeFraction(r) \div Pow2(halvings)
        ELSE HalfLifeFraction(r) * Pow2(-halvings)

\* calculate_trust_decay without the floor
calculate_trust_decay_nofloor(initial_trust, created_at, current_time) ==
    LET delta == current_time - created_at
    IN  (initial_trust * decay_factor(delta)) \div 1000000

\* calculate_trust_decay(initial_trust, created_at, current_time):
\* max(min_trust, initial_trust * exp(-decay_constant * delta))
calculate_trust_decay_floor_half(initial_trust, created_at, current_time) ==
    LET delta == current_time - created_at
        decayed_trust == (initial_trust * decay_factor(delta)) \div 1000000
    IN  Max(500, decayed_trust)

calculate_trust_decay(initial_trust, created_at, current_time) ==
    LET delta == current_time - created_at
        decayed_trust == (initial_trust * decay_factor(delta)) \div 1000000
    IN  Max(min_trust, decayed_trust)

\* coherence drift: the thresholds, in thousandths
drift_threshold_minor == 50
drift_threshold_major == 150

\* np.linalg.norm of a vector whose length is a whole number
linalg_norm(v) == CHOOSE n \in 0..Dot(v, v) : n * n = Dot(v, v)

\* calculate_coherence_drift with the minor threshold taken for the major one
calculate_coherence_drift_loose(baseline_vector, current_vector) ==
    LET norms == linalg_norm(baseline_vector) * linalg_norm(current_vector)
        dot == Dot(baseline_vector, current_vector)
    IN  IF norms = 0
        THEN [nan |-> TRUE, drift |-> 0, status |-> "major_drift"]
        ELSE [nan |-> FALSE,
              drift |-> RoundDiv(1000 * (norms - dot), norms),
              status |-> IF 1000 * (norms - dot) < drift_threshold_major * norms
                         THEN "stable"
                         ELSE IF 1000 * (norms - dot) < drift_threshold_major * norms
                         THEN "minor_drift"
                         ELSE "major_drift"]

\* calculate_coherence_drift dividing by the squared length of the baseline
calculate_coherence_drift_projection(baseline_vector, current_vector) ==
    LET norms == linalg_norm(baseline_vector) * linalg_norm(baseline_vector)
        dot == Dot(baseline_vector, current_vector)
    IN  IF norms = 0 \/ linalg_norm(current_vector) = 0
        THEN [nan |-> TRUE, drift |-> 0, status |-> "major_drift"]
        ELSE [nan |-> FALSE,
              drift |-> RoundDiv(1000 * (norms - dot) + 4000 * norms, norms) - 4000,
              status |-> IF 1000 * (norms - dot) < drift_threshold_minor * norms
                         THEN "stable"
                         ELSE IF 1000 * (norms - dot) < drift_threshold_major * norms
                         THEN "minor_drift"
                         ELSE "major_drift"]

\* calculate_coherence_drift(baseline_vector, current_vector): (drift, status)
\* with drift = 1 - dot / (norm * norm), rounded here to thousandths while the
\* status compares the quotient itself.  A vector of length 0 makes the
\* quotient 0/0 = nan, which is below no threshold: the status is major_drift
calculate_coherence_drift(baseline_vector, current_vector) ==
    LET norms == linalg_norm(baseline_vector) * linalg_norm(current_vector)
        dot == Dot(baseline_vector, current_vector)
    IN  IF norms = 0
        THEN [nan |-> TRUE, drift |-> 0, status |-> "major_drift"]
        ELSE [nan |-> FALSE,
              drift |-> RoundDiv(1000 * (norms - dot), norms),
              status |-> IF 1000 * (norms - dot) < drift_threshold_minor * norms
                         THEN "stable"
                         ELSE IF 1000 * (norms - dot) < drift_threshold_major * norms
                         THEN "minor_drift"
                         ELSE "major_drift"]

\* _determine_action with the flag rule asking for a stable status
determine_action_stable_only(trust, drift_status) ==
    IF trust >= 700 /\ drift_status = "stable" THEN "allow"
    ELSE IF trust >= 500 /\ drift_status = "stable" THEN "flag"
    ELSE "deny"

\* _determine_action(trust, drift_status)
\* the three actions of _determine_action, deny lowest
ActionRank(action) ==
    CASE action = "allow" -> 2 [] action = "flag" -> 1 [] action = "deny" -> 0

determine_action(trust, drift_status) ==
    IF trust >= 700 /\ drift_status = "stable" THEN "allow"
    ELSE IF trust >= 500 /\ drift_status \in {"stable", "minor_drift"} THEN "flag"
    ELSE "deny"

\* assess_temporal_health(object_id, initial_trust, created_at, baseline_vector,
\* current_vector, current_time): the drift is computed when both vectors are
\* given and is 0.0, "stable" otherwise
assess_temporal_health(object_id, initial_trust, created_at, baseline_vector, current_vector, current_time) ==
    LET current_trust == calculate_trust_decay(initial_trust, created_at,
                                               current_time)
        trust_delta == current_trust - initial_trust
        drift == IF baseline_vector # NoVector /\ current_vector # NoVector
                 THEN calculate_coherence_drift(baseline_vector, current_vector)
                 ELSE [nan |-> FALSE, drift |-> 0, status |-> "stable"]
        action == determine_action(current_trust, drift.status)
    IN  [object_id |-> object_id,
         timestamp |-> IsoFormat(current_time),
         trust |-> [initial |-> initial_trust, current |-> current_trust,
                    delta |-> trust_delta, age_days |-> current_time - created_at],
         drift |-> [nan |-> drift.nan, magnitude |-> drift.drift,
                    status |-> drift.status],
         action |-> action,
         requires_validation |-> action \in {"flag", "deny"}]

\* predict_decay_timeline(initial_trust, created_at, days_ahead): weekly samples
predict_decay_timeline(initial_trust, created_at, days_ahead) ==
    [k \in 1..(days_ahead \div 7 + 1) |->
        LET day == 7 * (k - 1)
            future_time == created_at + day
            trust == calculate_trust_decay(initial_trust, created_at, future_time)
        IN  [day |-> day, date |-> IsoFormat(future_time), trust |-> trust,
             action |-> determine_action(trust, "stable")]]

-----------------------------------------------------------------------------
(* Calls of the kernel's functions on their own: the arguments and the result *)

MaxDecaySteps == 7
MaxCandidates == 3

NoCall == [fn |-> "none", args |-> <<>>, result |-> <<>>]

\* the types and similarities a relation may be validated for
RelationTypes ==
    {"Transaction", "Account", "Forecast", "Document", "Concept", "Widget"}
Similarities == {0, 790, 799, 800, 801, 1000}

\* sage.validate_relation(source_type, target_type, similarity)
ValidateRelation(source_type, target_type, similarity) ==
    /\ call' = [fn |-> "validate_relation",
                args |-> [source_type |-> source_type, target_type |-> target_type,
                          similarity |-> similarity],
                result |-> validate_relation(source_type, target_type, similarity)]
    /\ UNCHANGED <<clock, busVars, storeVars, threadVars>>

\* the trusts and the days a decay may be asked for
InitialTrusts == {0, 50, 500, 800, 1000}
DecayTimes == {10 * k : k \in 0..MaxDecaySteps}
CreationTimes == {0, 10}

\* kronos.calculate_trust_decay(initial_trust, created_at, current_time)
CalculateTrustDecay(initial_trust, created_at, current_time) ==
    /\ call' = [fn |-> "calculate_trust_decay",
                args |-> [initial_trust |-> initial_trust, created_at |-> created_at,
                          current_time |-> current_time],
                result |-> calculate_trust_decay(initial_trust, created_at,
                                                 current_time)]
    /\ UNCHANGED <<clock, busVars, storeVars, threadVars>>

\* the vectors a drift may be computed between
DriftVectors == {<<0, 0>>, <<1, 0>>, <<0, 1>>, <<-1, 0>>, <<3, 4>>, <<4, 3>>,
                 <<5, 12>>, <<8, 15>>, <<7, 24>>}

\* kronos.calculate_coherence_drift(baseline_vector, current_vector)
CalculateCoherenceDrift(baseline_vector, current_vector) ==
    /\ call' = [fn |-> "calculate_coherence_drift",
                args |-> [baseline_vector |-> baseline_vector,
                          current_vector |-> current_vector],
                result |-> calculate_coherence_drift(baseline_vector,
                                                     current_vector)]
    /\ UNCHANGED <<clock, busVars, storeVars, threadVars>>

\* the vectors a temporal health may be assessed with, None or a vector, and
\* the initial trusts
HealthVectors == {NoVector, <<1, 0>>, <<3, 4>>, <<4, 3>>, <<7, 24>>}
HealthTrusts == {499, 500, 699, 700, 1000}

\* kronos.assess_temporal_health(object_id, initial_trust, created_at,
\* baseline_vector, current_vector, current_time)
AssessTemporalHealth(object_id, initial_trust, created_at, baseline_vector, current_vector, current_time) ==
    /\ call' = [fn |-> "assess_temporal_health",
                args |-> [object_id |-> object_id, initial_trust |-> initial_trust,
                          created_at |-> created_at,
                          baseline_vector |-> baseline_vector,
                          current_vector |-> current_vector,
                          current_time |-> current_time],
                result |-> assess_temporal_health(object_id, initial_trust,
                               created_at, baseline_vector, current_vector,
                               current_time)]
    /\ UNCHANGED <<clock, busVars, storeVars, threadVars>>

\* kronos.predict_decay_timeline(initial_trust, created_at, days_ahead)
PredictDecayTimeline(initial_trust, created_at, days_ahead) ==
    /\ call' = [fn |-> "predict_decay_timeline",
                args |-> [initial_trust |-> initial_trust, created_at |-> created_at,
                          days_ahead |-> days_ahead],
                result |-> predict_decay_timeline(initial_trust, created_at,
                                                  days_ahead)]
    /\ UNCHANGED <<clock, busVars, storeVars, threadVars>>

\* the candidate lists a similarity search may be run on: the i-th candidate
\* is the i-th object of the query
SearchVectors == {<<1, 0>>, <<4, 3>>, <<0, 1>>}
CandidateLists ==
    UNION { {[i \in 1..n |-> [id |-> Uuid("obj", i), vector |-> f[i]]] :
                f \in [1..n -> SearchVectors]} : n \in 0..MaxCandidates }

\* semantic_neighbors(vector, all_vectors, threshold, top_k)
SemanticNeighbors(vector, all_vectors, threshold, top_k) ==
    /\ call' = [fn |-> "semantic_neighbors",
                args |-> [vector |-> vector, all_vectors |-> all_vectors,
                          threshold |-> threshold, top_k |-> top_k],
                result |-> semantic_neighbors(vector, all_vectors, threshold, top_k)]
    /\ UNCHANGED <<clock, busVars, storeVars, threadVars>>

-----------------------------------------------------------------------------
(* Kronos: the temporal index written and read outside an admission            *)
(* (src/core/kronos/temporal_indexer.py, src/core/core_api.py 397-472,         *)
(* src/core/scripts/generate_temporal_test_data_v2.py)                         *)

MaxRecorded == 2
MaxEvolution == 2
MaxScripted == 1

\* the object the test-data script admits
test_object == [amount |-> 15000, date |-> "2025-10-24"]

\* generate_temporal_evolution: reasoner.ingest("Transaction", test_object,
\* actor="TemporalTestScript")
ScriptIngest(t) ==
    /\ Len(objects) < MaxScripted
    /\ StartIngest(t, "Transaction", test_object, "TemporalTestScript")

\* the script's evolution_pattern: (days_offset, event_type, coherence, trust,
\* reason)
evolution_pattern ==
    << <<0, "baseline", 872, 600, "initial_ingest">>,
       <<1, "update", 883, 640, "manual_review">>,
       <<2, "validation", 891, 690, "financial_audit">>,
       <<3, "update", 895, 720, "ontology_alignment">>,
       <<4, "drift_detected", 861, 680, "semantic_shift">>,
       <<5, "recovery", 877, 740, "temporal_reconciliation">>,
       <<6, "validation", 902, 790, "final_confirmation">> >>

get_actor(event_type) ==
    CASE event_type \in {"baseline", "recovery"} -> "Mirror"
      [] event_type = "update" -> "SAGE"
      [] event_type = "validation" -> "Human"
      [] event_type = "drift_detected" -> "Kronos"
      [] OTHER -> "System"

\* the events of the script in the table: those whose metadata has a reason
script_events(table, object_id) ==
    SelectSeq(table, LAMBDA row : /\ row.object_id = object_id
                                  /\ "reason" \in DOMAIN json_loads(row.metadata))

\* the objects the script admitted and has not written all its events for
script_objects ==
    {kronos_events[i].object_id : i \in
        {j \in 1..Len(kronos_events) :
            LET metadata == json_loads(kronos_events[j].metadata)
            IN  /\ "decision" \in DOMAIN metadata
                /\ metadata.actor = "TemporalTestScript"}}

\* generate_temporal_evolution, one turn of its loop: the next event of the
\* pattern INSERTed into kronos_events with the timestamp base_time +
\* days_offset, base_time being 7 days before now, and committed
GenerateTemporalEvolution(object_id) ==
    /\ Ready
    /\ object_id \in script_objects
    /\ Len(script_events(kronos_events, object_id)) < MaxEvolution
    /\ LET event == evolution_pattern[Len(script_events(kronos_events,
                                                        object_id)) + 1]
           base_time == clock - 7
       IN  kronos_events' =
             Append(kronos_events,
                    [id |-> Len(kronos_events) + 1, object_id |-> object_id,
                     timestamp |-> IsoFormat(base_time + event[1]),
                     event_type |-> event[2], vector |-> NoVector,
                     coherence_score |-> event[3], trust_score |-> event[4],
                     metadata |-> json_dumps([reason |-> event[5],
                                              actor |-> get_actor(event[2])])])
    /\ UNCHANGED <<call, clock, busVars, objects, vectors, sage_metadata, relations,
                   provenance, kronos_ready, threadVars>>

\* TemporalIndexer.record_event called on its own, for a stored object
RecordEvent(object_id, event_type, coherence, trust) ==
    /\ Ready
    /\ kronos_ready
    /\ Cardinality({i \in 1..Len(kronos_events) :
                       json_loads(kronos_events[i].metadata) = EmptyDict})
          < MaxRecorded
    /\ kronos_events' = record_event(kronos_events, object_id, event_type,
                                     NoVector, coherence, trust, EmptyDict, clock)
    /\ UNCHANGED <<call, clock, busVars, objects, vectors, sage_metadata, relations,
                   provenance, kronos_ready, threadVars>>

\* TemporalIndexer.get_baseline(object_id) called on its own
GetBaseline(object_id) ==
    /\ Ready
    /\ kronos_ready
    /\ LET baseline == get_baseline(kronos_events, object_id)
           asked == [NoLocals EXCEPT !.object_id = object_id]
       IN  outcome' = Success("get_baseline", asked,
                              IF baseline = <<>> THEN EmptyDict ELSE baseline[1])
    /\ UNCHANGED <<call, clock, busVars, storeVars, pc, loc>>

\* TemporalIndexer.get_latest(object_id) called on its own
GetLatest(object_id) ==
    /\ Ready
    /\ kronos_ready
    /\ LET latest == get_latest(kronos_events, object_id)
           asked == [NoLocals EXCEPT !.object_id = object_id]
       IN  outcome' = Success("get_latest", asked,
                              IF latest = <<>> THEN EmptyDict ELSE latest[1])
    /\ UNCHANGED <<call, clock, busVars, storeVars, pc, loc>>

\* GET /api/kronos/events?object_id=...: the timeline of the object
GetKronosEvents(object_id, limit) ==
    /\ Ready
    /\ LET asked == [NoLocals EXCEPT !.object_id = object_id]
       IN  outcome' =
             IF ~kronos_ready
             THEN Failure("get_kronos_events", asked, "HTTPException",
                          "Kronos query failed")
             ELSE LET timeline == get_timeline(kronos_events, object_id, limit)
                  IN  Success("get_kronos_events", asked,
                              [object_id |-> object_id, events |-> timeline,
                               count |-> Len(timeline)])
    /\ UNCHANGED <<call, clock, busVars, storeVars, pc, loc>>

\* the body of GET /api/kronos/drift/{object_id} once both events are found
drift_data(object_id, baseline, latest) ==
    [object_id |-> object_id,
     baseline |-> [timestamp |-> baseline.timestamp,
                   coherence |-> baseline.coherence_score,
                   trust |-> baseline.trust_score],
     latest |-> [timestamp |-> latest.timestamp,
                 coherence |-> latest.coherence_score,
                 trust |-> latest.trust_score],
     delta |-> [coherence |-> latest.coherence_score - baseline.coherence_score,
                trust |-> latest.trust_score - baseline.trust_score]]

\* get_drift_analysis that stores the latest scores as the object's governance
\* metadata
GetDriftAnalysisApplies(object_id) ==
    /\ Ready
    /\ kronos_ready
    /\ LET baseline == get_baseline(kronos_events, object_id)
           latest == get_latest(kronos_events, object_id)
           asked == [NoLocals EXCEPT !.object_id = object_id]
       IN  IF baseline = <<>>
           THEN /\ outcome' = Failure("get_drift_analysis", asked, "HTTPException",
                                      "No baseline found for object")
                /\ UNCHANGED sage_metadata
           ELSE /\ outcome' = Success("get_drift_analysis", asked,
                                      drift_data(object_id, baseline[1], latest[1]))
                /\ sage_metadata' =
                      save_sage_metadata(sage_metadata, object_id,
                                         latest[1].coherence_score,
                                         latest[1].trust_score, TRUE, clock)
    /\ UNCHANGED <<call, clock, busVars, objects, vectors, relations, provenance,
                   kronos_ready, kronos_events, pc, loc>>

\* GET /api/kronos/drift/{object_id}: 404 without a baseline (an object with an
\* event has a latest one), 500 when the query fails
GetDriftAnalysis(object_id) ==
    /\ Ready
    /\ LET asked == [NoLocals EXCEPT !.object_id = object_id]
       IN  outcome' =
             IF ~kronos_ready
             THEN Failure("get_drift_analysis", asked, "HTTPException",
                          "Drift analysis failed")
             ELSE LET baseline == get_baseline(kronos_events, object_id)
                      latest == get_latest(kronos_events, object_id)
                  IN  IF baseline = <<>>
                      THEN Failure("get_drift_analysis", asked, "HTTPException",
                                   "No baseline found for object")
                      ELSE IF latest = <<>>
                      THEN Failure("get_drift_analysis", asked, "HTTPException",
                                   "No events found for object")
                      ELSE Success("get_drift_analysis", asked,
                                   drift_data(object_id, baseline[1], latest[1]))
    /\ UNCHANGED <<call, clock, busVars, storeVars, pc, loc>>

-----------------------------------------------------------------------------
(* Specifications *)

Init ==
    /\ clock = 0
    /\ pulse = <<>>
    /\ emitted = <<>>
    /\ provenance_log = <<>>
    /\ objects = <<>>
    /\ vectors = EmptyDict
    /\ sage_metadata = EmptyDict
    /\ relations = <<>>
    /\ provenance = <<>>
    /\ kronos_ready = FALSE
    /\ kronos_events = <<>>
    /\ pc = [t \in Threads |-> "idle"]
    /\ loc = [t \in Threads |-> NoLocals]
    /\ outcome = NoOutcome
    /\ call = NoCall
    /\ listeners = EmptyDict
    /\ event_history = <<>>
    /\ is_awake = FALSE

\* the ids a read may ask for: those of the stored objects and one of no object
ObjectIds == {Uuid("obj", n) : n \in 0..Len(objects)}

\* the steps of an admission on thread t, but for the call of SAGE
Admission(t) ==
    \/ \E r \in Requests, a \in Actors : Ingest(t, r[1], r[2], a)
    \/ SaveObject(t)
    \/ \E e \in EmbedOutputs : Embed(t, e)
    \/ EmbedFails(t)
    \/ SaveVector(t)
    \/ SaveSageMetadata(t)
    \/ LogProvenance(t)
    \/ RecordBaseline(t)
    \/ RecordBaselineNoTable(t)
    \/ FindRelations(t)
    \/ ReturnReasoned(t)
    \/ StoreFails(t)

\* the reads, and the batch import's ledger entries
Reads ==
    \/ \E id \in ObjectIds : Reason(id)
    \/ \E id \in ObjectIds : InferRelations(id)

Batch ==
    \E a \in {"batch_ingest_started", "batch_ingest_completed"} : BatchLog(a, "User")

\* the program: ingest hands SAGE the empty provenance chain, so that the
\* decision is never deny and the deny branch of ingest is never taken
Next ==
    \/ Tick
    \/ Respond
    \/ InitializeKronosTables
    \/ \E t \in Threads : Admission(t)
    \/ \E t \in Threads : RunSage(t, NewObjectChain)
    \/ Reads
    \/ Batch

Spec == Init /\ [][Next]_vars

\* admissions with a governance pass that hands SAGE any of AdmitChains
NextAnyChain ==
    \/ Respond
    \/ InitializeKronosTables
    \/ \E t \in Threads : Admission(t)
    \/ \E t \in Threads, c \in AdmitChains : RunSage(t, c)
    \/ \E t \in Threads : LogDenied(t)

SpecAnyChain == Init /\ [][NextAnyChain]_vars

\* the two ledgers: one worker, the reads, the batch import and the shadow ledger
NextLedger ==
    \/ Tick
    \/ Respond
    \/ InitializeKronosTables
    \/ Admission("w1")
    \/ RunSage("w1", NewObjectChain)
    \/ Reads
    \/ Batch
    \/ \E p \in LedgerPulses : LogPulse(p)
    \/ \E p \in LedgerPulses : LogPulseFails(p)

SpecLedger == Init /\ [][NextLedger]_vars

\* SAGE answering governance.validate pulses
NextSage ==
    \/ Tick
    \/ \E p \in SagePulses : EmitValidate(p)
    \/ OnValidateRequest

SpecSage == Init /\ [][NextSage]_vars

\* the rows of an imported file and what they embed to: the first MaxVaried
\* rows to any of three vectors, the rows after them alike
ImportedRow == [amount |-> 5, date |-> "2025-01-01"]
RowVectors(n) == IF n <= MaxVaried THEN {<<1, 0>>, <<4, 3>>, <<0, 1>>} ELSE {<<1, 0>>}

\* a batch import: the rows of one file admitted one after the other
NextRelations ==
    \/ InitializeKronosTables
    \/ ImportRow("w1", ImportedRow, "User")
    \/ SaveObject("w1")
    \/ \E e \in RowVectors(Len(objects)) : Embed("w1", e)
    \/ SaveVector("w1")
    \/ RunSage("w1", NewObjectChain)
    \/ SaveSageMetadata("w1")
    \/ LogProvenance("w1")
    \/ RecordBaseline("w1")
    \/ FindRelations("w1")
    \/ ReturnReasoned("w1")
    \/ Respond

SpecRelations == Init /\ [][NextRelations]_vars

\* the temporal index: the test-data script admitting objects and writing
\* their evolution, record_event called on its own, the reads of the index and
\* the recommendation computed from what they return
StoredIds == {Uuid("obj", n) : n \in 1..Len(objects)}

NextKronos ==
    \/ Tick
    \/ Respond
    \/ InitializeKronosTables
    \/ ScriptIngest("w1")
    \/ SaveObject("w1")
    \/ \E e \in {<<1, 0>>, <<4, 3>>} : Embed("w1", e)
    \/ SaveVector("w1")
    \/ RunSage("w1", NewObjectChain)
    \/ SaveSageMetadata("w1")
    \/ LogProvenance("w1")
    \/ RecordBaseline("w1")
    \/ RecordBaselineNoTable("w1")
    \/ FindRelations("w1")
    \/ ReturnReasoned("w1")
    \/ \E id \in StoredIds : GenerateTemporalEvolution(id)
    \/ \E id \in StoredIds, type \in {"baseline", "update"}, c \in {700, 710} :
          RecordEvent(id, type, c, 600)
    \/ \E id \in ObjectIds : GetBaseline(id)
    \/ \E id \in ObjectIds : GetLatest(id)
    \/ \E id \in ObjectIds : GetKronosEvents(id, 100)
    \/ \E id \in ObjectIds : GetDriftAnalysis(id)
    \/ \E id \in StoredIds :
          /\ get_baseline(kronos_events, id) # <<>>
          /\ LET baseline == get_baseline(kronos_events, id)[1]
                 latest == get_latest(kronos_events, id)[1]
             IN  AssessTemporalHealth(id, baseline.trust_score,
                                      baseline.timestamp.day, baseline.vector,
                                      latest.vector, clock)

SpecKronos == Init /\ [][NextKronos]_vars

\* the shadow ledger on the bus: it logs the pulses it sees and answers
\* shadow.query pulses
NextShadow ==
    \/ Tick
    \/ \E p \in LedgerPulses \cup ShadowQueries : LogPulse(p)
    \/ \E p \in LedgerPulses \cup ShadowQueries : LogPulseFails(p)
    \/ \E p \in ShadowQueries : OnQuery(p)
    \/ \E p \in ShadowQueries : OnQueryFails(p)

SpecShadow == Init /\ [][NextShadow]_vars

\* the functions of the kernel called on their own
-----------------------------------------------------------------------------
(* PulseBus (pulse_bus.py) with the listeners of the shadow ledger (provenance.py) *)

MaxListeners == 2
MaxEmits == 2

\* the registrations of ShadowLedger._register_pulse_listeners, by handler name
Registrations == { <<"system.genesis", "on_genesis">>, <<"*", "on_any_pulse">> }

\* topics put on the bus, and their data (no object_type, the bus has no reasoner)
EmitTopics == {"system.genesis", "governance.decision", "*"}
BusData == { [id |-> "pulse_1", topic |-> "governance.decision"], EmptyDict }

\* PulseBus.on(topic, handler): self.listeners[topic].append(handler)
on(table, topic, handler) == Upsert(table, topic, Append(Get(table, topic, <<>>), handler))

\* the event of PulseBus.emit(topic, data) once its handlers have run: only the
\* handlers under the very topic are called, each with event["data"]
emit(table, topic, data, now) ==
    LET handlers == Get(table, topic, <<>>)
    IN  [id |-> <<"pulse", now>>, topic |-> topic, data |-> data,
         timestamp |-> IsoFormat(now), validated |-> FALSE,
         handlers_called |-> Len(handlers),
         results |-> [i \in 1..Len(handlers) |->
                         [handler |-> handlers[i], success |-> TRUE]]]

\* on_genesis: emit wake.node_ready, then is_awake = True; once per registration
node_ready(table, now, k) ==
    [i \in 1..k |-> emit(table, "wake.node_ready",
                         [node_id |-> "shadow", role |-> "witness"], now)]

\* on_any_pulse(pulse): log_pulse(pulse) if is_awake; once per registration
RECURSIVE on_any_pulse(_, _, _, _, _)
on_any_pulse(table, awake, data, now, k) ==
    IF k = 0 \/ ~awake THEN table
    ELSE on_any_pulse(log_pulse(table, data, now), awake, data, now, k - 1)

\* bus.on(topic, handler)
On(topic, handler) ==
    /\ Len(Get(listeners, topic, <<>>)) < MaxListeners
    /\ listeners' = on(listeners, topic, handler)
    /\ call' = [fn |-> "on", args |-> [topic |-> topic, handler |-> handler],
                result |-> handler]
    /\ UNCHANGED <<clock, pulse, emitted, provenance_log, event_history, is_awake,
                   storeVars, threadVars>>

\* @bus.on(topic): on is called without a handler and raises TypeError
OnAsDecorator(topic) ==
    /\ call' = [fn |-> "on", args |-> [topic |-> topic], result |-> "TypeError"]
    /\ UNCHANGED <<clock, busVars, storeVars, threadVars>>

\* await bus.emit(topic, data), the handlers it calls included
Emit(topic, data) ==
    /\ Len(event_history) < MaxEmits
    /\ LET event == emit(listeners, topic, data, clock)
           called(h) == Len(SelectSeq(event.results, LAMBDA r : r.handler = h))
       IN  /\ event_history' = Append(event_history, event)
                                \o node_ready(listeners, clock, called("on_genesis"))
           /\ is_awake' = (is_awake \/ called("on_genesis") > 0)
           /\ provenance_log' = on_any_pulse(provenance_log, is_awake, data, clock,
                                             called("on_any_pulse"))
    /\ UNCHANGED <<call, clock, pulse, emitted, listeners, storeVars, threadVars>>

NextBus ==
    \/ \E r \in Registrations : On(r[1], r[2])
    \/ \E r \in Registrations : OnAsDecorator(r[1])
    \/ \E topic \in EmitTopics, data \in BusData : Emit(topic, data)

SpecBus == Init /\ [][NextBus]_vars

\* field maps that carry a key named id of their own: the id of a stored
\* object, and an id of no object
FieldMaps ==
    { [amount |-> 5, date |-> "2025-01-01", id |-> Uuid("obj", 1)],
      [amount |-> 5, date |-> "2025-01-01", id |-> Uuid("client", 1)] }

\* one worker admitting objects of Requests and of FieldMaps, and the reads
NextFields ==
    \/ Respond
    \/ InitializeKronosTables
    \/ Admission("w1")
    \/ \E data \in FieldMaps, a \in Actors : Ingest("w1", "Transaction", data, a)
    \/ RunSage("w1", NewObjectChain)
    \/ \E id \in ObjectIds : Reason(id)

SpecFields == Init /\ [][NextFields]_vars

\* validate_object on an object, a vector of norm num / NormDen and a chain
NormDen == 10
VectorNorms == {0, 6, 7, 10, 15, 20}
ValidateObject(obj, num, chain) ==
    /\ call' = [fn |-> "validate_object",
                args |-> [obj |-> obj, norm |-> [num |-> num, den |-> NormDen],
                          provenance_chain |-> chain, now |-> clock],
                result |-> validate_object_scored(
                               coherence_check_norm(obj, num, NormDen),
                               obj, chain, clock)]
    /\ UNCHANGED <<clock, busVars, storeVars, threadVars>>

NextValidate ==
    \E obj \in SageObjects, num \in VectorNorms, chain \in Chains :
        ValidateObject(obj, num, chain)

SpecValidate == Init /\ [][NextValidate]_vars

NextFunctions ==
    \/ \E a \in RelationTypes, b \in RelationTypes, x \in Similarities :
          ValidateRelation(a, b, x)
    \/ \E i \in InitialTrusts, c \in CreationTimes, t \in DecayTimes :
          CalculateTrustDecay(i, c, t)
    \/ \E v \in SearchVectors, cs \in CandidateLists, k \in 1..2 :
          SemanticNeighbors(v, cs, RelationThreshold, k)
    \/ \E b \in DriftVectors, c \in DriftVectors : CalculateCoherenceDrift(b, c)
    \/ \E i \in HealthTrusts, c \in CreationTimes, t \in DecayTimes,
          b \in HealthVectors, v \in HealthVectors :
          AssessTemporalHealth(Uuid("obj", 1), i, c, b, v, t)
    \/ \E i \in InitialTrusts, d \in {0, 7, 20, 28} : PredictDecayTimeline(i, 0, d)

SpecFunctions == Init /\ [][NextFunctions]_vars

-----------------------------------------------------------------------------
(* Properties *)

\* C1: after an admission whose governance decision is deny (and whose store
\* calls did not fail), the object has no sage_metadata row, the ledger holds
\* exactly one event of the object, its action is "denied", and the operation
\* ended with ValueError("SAGE denied object") and returned nothing.
C1_DenyLeavesNoGovernanceRow ==
    (/\ outcome.op = "ingest"
     /\ ~outcome.sage.raised
     /\ outcome.sage.decision = "deny"
     /\ outcome.error.type # "StoreError")
    => LET id == outcome.object_id
           events == {i \in 1..Len(provenance) : provenance[i].object_id = id}
       IN  /\ id \notin DOMAIN sage_metadata
           /\ Cardinality(events) = 1
           /\ \A i \in events : provenance[i].action = "denied"
           /\ outcome.status = "error"
           /\ outcome.error.type = "ValueError"
           /\ outcome.error.msg = "SAGE denied object"
           /\ outcome.result = EmptyDict

\* C1 witness: an admission was just denied and its event is in the ledger
C1_Witness ==
    /\ outcome.op = "ingest"
    /\ outcome.sage.decision = "deny"
    /\ outcome.error.msg = "SAGE denied object"
    /\ \E i \in 1..Len(provenance) : provenance[i].object_id = outcome.object_id

\* C2: when an admission whose decision is allow or flag returns, the object
\* has a sage_metadata row with the coherence and trust SAGE evaluated, exactly
\* one ledger event, "ingested" for allow and "flagged" for flag, and a baseline
\* kronos event with the admission's vector and the same two scores.
C2_AdmittedIsGoverned ==
    (outcome.op = "ingest" /\ outcome.status = "ok")
    => LET id == outcome.object_id
           sage == outcome.sage
           events == {i \in 1..Len(provenance) : provenance[i].object_id = id}
           baselines == {i \in 1..Len(kronos_events) :
                            /\ kronos_events[i].object_id = id
                            /\ kronos_events[i].event_type = "baseline"}
       IN  /\ sage.decision \in {"allow", "flag"}
           /\ id \in DOMAIN sage_metadata
           /\ sage_metadata[id].coherence_score = sage.coherence_score
           /\ sage_metadata[id].trust_score = sage.trust_score
           /\ Cardinality(events) = 1
           /\ \A i \in events :
                 provenance[i].action = IF sage.decision = "allow"
                                        THEN "ingested" ELSE "flagged"
           /\ Cardinality(baselines) = 1
           /\ \A i \in baselines :
                 /\ kronos_events[i].vector = [buffer |-> outcome.embedding]
                 /\ kronos_events[i].coherence_score = sage.coherence_score
                 /\ kronos_events[i].trust_score = sage.trust_score

\* C2 witness: an admission SAGE allowed has returned
C2_Witness ==
    /\ outcome.op = "ingest"
    /\ outcome.status = "ok"
    /\ outcome.sage.decision = "allow"
    /\ outcome.sage.coherence_score # outcome.sage.trust_score

\* C3: the decision is allow iff coherence >= 0.8 and trust >= 0.7, otherwise
\* flag iff coherence >= 0.6 and trust >= 0.5, otherwise deny: on a grid of
\* scores around the thresholds, and for every decision SAGE emitted.
C3_DecisionThresholds ==
    LET Expected(c, t) == IF c >= 800 /\ t >= 700 THEN "allow"
                          ELSE IF c >= 600 /\ t >= 500 THEN "flag"
                          ELSE "deny"
        grid == {0, 499, 500, 501, 599, 600, 601, 699, 700, 701, 799, 800, 801, 1000}
    IN  /\ \A c \in grid, t \in grid :
              /\ decision_logic(c, t).decision = Expected(c, t)
              /\ decision_logic(c, t).decision \in {"allow", "flag", "deny"}
        /\ \A i \in 1..Len(emitted) :
              emitted[i].topic = "governance.decision"
              => /\ emitted[i].decision \in {"allow", "flag", "deny"}
                 /\ emitted[i].decision =
                       Expected(emitted[i].validation.coherence_score,
                                emitted[i].validation.trust_score)

\* C3 witness: SAGE emitted a decision for scores on the flag thresholds
C3_Witness ==
    \E i \in 1..Len(emitted) :
        /\ emitted[i].topic = "governance.decision"
        /\ emitted[i].validation.coherence_score = 600
        /\ emitted[i].validation.trust_score = 500
        /\ emitted[i].decision = "flag"

\* C4: when the schema validator rejects the input, the admission ends in the
\* step that validated it with ValueError("Ontology validation failed") listing
\* an error for every missing required property (or the unknown type), and the
\* objects, vectors, sage_metadata, relations, provenance and kronos tables are
\* exactly as before the call; no admission of a rejected input ends otherwise.
C4_RejectedInputChangesNothing ==
    [][ /\ (outcome'.op = "ingest" /\ outcome' # outcome
            /\ (\/ outcome'.object_type # "Transaction"
                \/ \E prop \in {"amount", "date"} : prop \notin DOMAIN outcome'.data))
           => /\ outcome'.status = "error"
              /\ outcome'.error.type = "ValueError"
              /\ outcome'.error.msg = "Ontology validation failed"
        /\ (outcome' # outcome /\ outcome'.error.msg = "Ontology validation failed")
           => /\ storeVars' = storeVars
              /\ outcome'.error.errors # <<>>
              /\ outcome'.object_type = "Transaction"
                 => \A prop \in {"amount", "date"} :
                       prop \notin DOMAIN outcome'.data
                       <=> \E k \in 1..Len(outcome'.error.errors) :
                              outcome'.error.errors[k]
                                 = <<"Missing required property", prop>> ]_vars

\* C4 witness: an input with two missing properties was just rejected while the
\* store already held an object
C4_Witness ==
    /\ outcome.op = "ingest"
    /\ outcome.error.msg = "Ontology validation failed"
    /\ Len(outcome.error.errors) = 2
    /\ Len(objects) >= 1
    /\ Len(provenance) >= 1

\* C5: both ledgers are append-only: every step leaves each row of the
\* provenance table and of the shadow ledger's provenance_log where it was,
\* with the same id, object_id, action, actor, metadata and timestamp.
C5_LedgersAppendOnly ==
    [][ /\ Len(provenance') >= Len(provenance)
        /\ \A i \in 1..Len(provenance) : provenance'[i] = provenance[i]
        /\ Len(provenance_log') >= Len(provenance_log)
        /\ \A i \in 1..Len(provenance_log) : provenance_log'[i] = provenance_log[i]
      ]_vars

\* C5 witness: the ledger holds the events of a batch import and of admissions,
\* and the shadow ledger holds two pulses
C5_Witness ==
    /\ \E i \in 1..Len(provenance) : provenance[i].action = "batch_ingest_completed"
    /\ \E i \in 1..Len(provenance) : provenance[i].action = "flagged"
    /\ Len(provenance) >= 4
    /\ Len(provenance_log) = 2

\* C6: an admission whose decision is deny ends at the enforcement step either
\* with the denied event appended and ValueError("SAGE denied object"), or,
\* when the write failed, with nothing appended and the store's error; and
\* whenever the caller sees the denial the denied event is in the ledger.
C6_DeniedOnlyAfterAuditWrite ==
    [][ /\ \A t \in Threads :
              (pc[t] = "enforce" /\ loc[t].sage.decision = "deny" /\ pc'[t] = "idle")
              => IF provenance' = provenance
                 THEN /\ outcome'.error.type = "StoreError"
                      /\ outcome'.error.msg # "SAGE denied object"
                 ELSE /\ Len(provenance') = Len(provenance) + 1
                      /\ provenance'[Len(provenance')].object_id = loc[t].object_id
                      /\ provenance'[Len(provenance')].action = "denied"
                      /\ outcome'.error.msg = "SAGE denied object"
        /\ outcome'.error.msg = "SAGE denied object"
           => \E i \in 1..Len(provenance') :
                 /\ provenance'[i].object_id = outcome'.object_id
                 /\ provenance'[i].action = "denied" ]_vars

\* C6 witness: the write of a denied event failed and the caller got the
\* store's error
C6_Witness ==
    /\ outcome.op = "ingest"
    /\ outcome.sage.decision = "deny"
    /\ outcome.error.type = "StoreError"
    /\ outcome.error.msg = "enforce"
    /\ \A i \in 1..Len(provenance) : provenance[i].object_id # outcome.object_id

\* C7: every denied event carries in its metadata the rationale and the
\* coherence and trust scores of a deny decision, and when the caller sees the
\* denial they are the rationale and scores SAGE returned for that admission.
C7_DeniedEventExplainsItself ==
    /\ \A i \in 1..Len(provenance) :
          provenance[i].action = "denied"
          => LET metadata == json_loads(provenance[i].metadata)
             IN  /\ {"reason", "coherence_score", "trust_score"} \subseteq DOMAIN metadata
                 /\ metadata.reason.text # ""
                 /\ ~(metadata.coherence_score >= 600 /\ metadata.trust_score >= 500)
                 /\ metadata.reason.args
                       = <<Fmt2(metadata.coherence_score), Fmt2(metadata.trust_score)>>
    /\ outcome.error.msg = "SAGE denied object"
       => \E i \in 1..Len(provenance) :
             /\ provenance[i].object_id = outcome.object_id
             /\ provenance[i].action = "denied"
             /\ json_loads(provenance[i].metadata).reason = outcome.sage.rationale
             /\ json_loads(provenance[i].metadata).coherence_score
                   = outcome.sage.coherence_score
             /\ json_loads(provenance[i].metadata).trust_score
                   = outcome.sage.trust_score

\* C7 witness: the ledger holds a denied event
C7_Witness ==
    \E i \in 1..Len(provenance) :
        /\ provenance[i].action = "denied"
        /\ json_loads(provenance[i].metadata).trust_score < 500

\* C8 (as the specification states it): the decisions SAGE emits for one pulse,
\* whenever it evaluates it, have the same coherence, trust and decision.
C8_EngineIsDeterministic ==
    \A i, j \in 1..Len(emitted) :
        (emitted[i].topic = "governance.decision"
         /\ emitted[j].topic = "governance.decision")
        => /\ emitted[i].validation.coherence_score
                 = emitted[j].validation.coherence_score
           /\ emitted[i].validation.trust_score = emitted[j].validation.trust_score
           /\ emitted[i].decision = emitted[j].decision

\* C9: validate_object raises for no pulse and at no time: it returns a result
\* whose decision is allow, flag or deny.
C9_EngineNeverRaises ==
    pulse # <<>>
    => LET result == Evaluate(pulse[1], clock)
       IN  /\ ~result.raised
           /\ result.decision \in {"allow", "flag", "deny"}

\* C9 witness: SAGE answered a pulse with no vector whose chain has an event
\* with an unparseable timestamp and no actor and ends with one with no timestamp
C9_Witness ==
    /\ pulse # <<>>
    /\ Len(emitted) > 0
    /\ RequestVector(pulse[1]) = NoVector
    /\ RequestChain(pulse[1]) =
          << [action |-> "ingested", timestamp |-> NotIso], [actor |-> "Mirror.UI"] >>

\* C10: a step in which Reason answers, with the reasoned object or with
\* "Object not found", leaves the objects, vectors, sage_metadata, relations,
\* provenance and kronos tables unchanged.
C10_ReasonHasNoSideEffects ==
    [][ (outcome' # outcome /\ outcome'.op = "reason") => storeVars' = storeVars ]_vars

\* C10 witness: Reason returned an object that has a vector, scores and a
\* ledger event
C10_Witness ==
    /\ outcome.op = "reason"
    /\ outcome.status = "ok"
    /\ outcome.result.vector.has_embedding
    /\ Len(outcome.result.provenance) = 1
    /\ Len(kronos_events) >= 1

C12_UnknownIdIsNotFound ==
    outcome.op = "reason"
    => IF get_object(objects, outcome.object_id) = <<>>
       THEN /\ outcome.status = "error"
            /\ outcome.error.type = "ValueError"
            /\ outcome.error.msg = "Object not found"
            /\ outcome.result = EmptyDict
            /\ get_object_status(outcome) = 404
       ELSE /\ outcome.status = "ok"
            /\ outcome.result.symbolic.id = outcome.object_id
            /\ get_object_status(outcome) = 200

\* C12 witness: Reason was asked for an unknown id while the store held objects
C12_Witness ==
    /\ outcome.op = "reason"
    /\ outcome.error.msg = "Object not found"
    /\ Len(objects) = 2
    /\ DOMAIN sage_metadata # {}

\* C13 (as the specification states it): reading an object back reports the
\* decision the engine issued for it, the one its ledger event records ("flag"
\* for a flagged object).
C13_ReadReportsIssuedDecision ==
    (outcome.op = "reason" /\ outcome.status = "ok")
    => \A i \in 1..Len(provenance) :
          (/\ provenance[i].object_id = outcome.object_id
           /\ provenance[i].action \in {"ingested", "flagged"})
          => get_object_response(outcome.result).sage.decision
                = json_loads(provenance[i].metadata).decision

\* C14 (as the specification states it): the coherence and the trust of every
\* decision SAGE emits lie in [0, 1], whatever the timestamps of the chain.
C14_ScoresInUnitInterval ==
    \A i \in 1..Len(emitted) :
        emitted[i].topic = "governance.decision"
        => /\ emitted[i].validation.coherence_score \in 0..1000
           /\ emitted[i].validation.trust_score \in 0..1000

\* C15 (as the specification states it): for a chain all of whose events carry
\* an ISO timestamp, trust is 0.5 when the chain is empty and otherwise
\* 0.4*min(1, validations/3) + 0.4*(trusted actors / events)
\* + 0.2*min(1, age/30) with age the days since the smallest timestamp of the
\* chain, wherever in the chain that event stands.
C15_TrustUsesOldestEvent ==
    \A i \in 1..Len(emitted) :
        LET chain == RequestChain(pulse[1])
            n == Len(chain)
            now == emitted[i].timestamp.day
            days == {Get(chain[k], "timestamp", NotIso).day : k \in 1..n}
            oldest == CHOOSE d \in days : \A e \in days : d <= e
            validations == Cardinality({k \in 1..n :
                               Get(chain[k], "action", None) = "validated"})
            trusted == Cardinality({k \in 1..n :
                               Get(chain[k], "actor", "unknown")
                                  \in {"SAGE", "Core", "Mirror.UI"}})
        IN  (/\ emitted[i].topic = "governance.decision"
             /\ \A k \in 1..n : Get(chain[k], "timestamp", NotIso).kind = "iso")
            => emitted[i].validation.trust_score
                  = IF n = 0 THEN 500
                    ELSE RoundDiv(4000 * Min(3, validations) * n + 12000 * trusted
                                    + 200 * Min(30, now - oldest) * n,
                                  30 * n)

\* C16 (as the specification states it): for an object evaluated with a vector,
\* coherence is 0.6*(fraction of object_type and data present)
\* + 0.4*min(1, magnitude), 1.0 for a complete object with a unit vector.
C16_CoherenceClipsMagnitude ==
    \A i \in 1..Len(emitted) :
        LET obj == RequestObject(pulse[1])
            vector == RequestVector(pulse[1])
            present == Cardinality({f \in {"object_type", "data"} : f \in DOMAIN obj})
        IN  (emitted[i].topic = "governance.decision" /\ vector # NoVector)
            => emitted[i].validation.coherence_score
                  = 300 * present + 400 * Min(1, Norm(vector))

\* C17 (as the specification states it): validate_relation is invalid with the
\* threshold reason whenever similarity < 0.80; otherwise valid when the two
\* types are equal, whatever the type, or the pair is Transaction/Account or
\* Forecast/Transaction in either order; otherwise invalid for incompatible
\* types.
C17_SameTypeAlwaysCompatible ==
    call.fn = "validate_relation"
    => LET a == call.args.source_type
           b == call.args.target_type
           cross == {<<"Transaction", "Account">>, <<"Forecast", "Transaction">>}
       IN  IF call.args.similarity < 800
           THEN /\ ~call.result.valid
                /\ call.result.reason = "Similarity too low"
           ELSE IF a = b \/ <<a, b>> \in cross \/ <<b, a>> \in cross
           THEN call.result.valid
           ELSE /\ ~call.result.valid
                /\ call.result.reason = "Incompatible types"

C19_RelationsJoinAdmittedObjects ==
    \A i \in 1..Len(relations) :
        /\ relations[i].source_id \in DOMAIN sage_metadata
        /\ relations[i].target_id \in DOMAIN sage_metadata

\* C20: calculate_trust_decay never returns less than min_trust = 0.1, and of
\* two calls with the same initial_trust and created_at, the one with the
\* later evaluation time returns no more than the other.
C20_DecayMonotoneAboveFloor ==
    [][ /\ call'.fn = "calculate_trust_decay" => call'.result >= 100
        /\ (/\ call.fn = "calculate_trust_decay"
            /\ call'.fn = "calculate_trust_decay"
            /\ call'.args.initial_trust = call.args.initial_trust
            /\ call'.args.created_at = call.args.created_at
            /\ call'.args.current_time > call.args.current_time)
           => call'.result <= call.result ]_vars

\* C20 witness: a trust of 0.8 evaluated one half-life after created_at came
\* out as 0.4
C20_Witness ==
    /\ call.fn = "calculate_trust_decay"
    /\ call.args.initial_trust = 800
    /\ call.args.current_time - call.args.created_at = 30
    /\ call.result = 400

\* C21: for vectors of non-zero length the drift calculate_coherence_drift
\* returns is 1 minus their cosine similarity (to the nearest thousandth), and
\* the status is stable iff drift < 0.05, minor_drift iff 0.05 <= drift < 0.15,
\* major_drift iff drift >= 0.15; [1,0] and [0,1] give drift 1.0, major_drift.
C21_DriftClassification ==
    /\ calculate_coherence_drift(<<1, 0>>, <<0, 1>>)
          = [nan |-> FALSE, drift |-> 1000, status |-> "major_drift"]
    /\ (call.fn = "calculate_coherence_drift" /\ ~call.result.nan)
       => LET b == call.args.baseline_vector
              c == call.args.current_vector
              norms == linalg_norm(b) * linalg_norm(c)
              drift == call.result.drift
              status == call.result.status
              error == drift * norms - 1000 * (norms - Dot(b, c))
          IN  /\ 2 * error <= norms /\ -2 * error <= norms
              /\ status \in {"stable", "minor_drift", "major_drift"}
              /\ status = "stable" <=> drift < 50
              /\ status = "minor_drift" <=> (50 <= drift /\ drift < 150)
              /\ status = "major_drift" <=> drift >= 150

\* C21 witness: a drift between the two thresholds was classified minor_drift
C21_Witness ==
    /\ call.fn = "calculate_coherence_drift"
    /\ ~call.result.nan
    /\ call.result.drift = 64
    /\ call.result.status = "minor_drift"

\* C22: the action assess_temporal_health recommends is allow iff the decayed
\* trust is >= 0.7 and the drift status is stable, otherwise flag iff the
\* decayed trust is >= 0.5 and the status is stable or minor_drift, otherwise
\* deny; the decayed trust is that of calculate_trust_decay, the status that of
\* calculate_coherence_drift when both vectors are given and stable when not.
C22_TemporalRecommendation ==
    call.fn = "assess_temporal_health"
    => LET a == call.args
           r == call.result
           trust == r.trust.current
           status == r.drift.status
       IN  /\ trust = calculate_trust_decay(a.initial_trust, a.created_at,
                                            a.current_time)
           /\ status = IF a.baseline_vector # NoVector /\ a.current_vector # NoVector
                       THEN calculate_coherence_drift(a.baseline_vector,
                                                      a.current_vector).status
                       ELSE "stable"
           /\ r.action = "allow" <=> (trust >= 700 /\ status = "stable")
           /\ r.action = "flag"
                 <=> /\ ~(trust >= 700 /\ status = "stable")
                     /\ trust >= 500
                     /\ status \in {"stable", "minor_drift"}
           /\ r.action = "deny" <=> r.action \notin {"allow", "flag"}
           /\ r.requires_validation <=> r.action \in {"flag", "deny"}

\* C22 witness: a trust of exactly 0.7 on a minor drift was flagged
C22_Witness ==
    /\ call.fn = "assess_temporal_health"
    /\ call.result.trust.current = 700
    /\ call.result.drift.status = "minor_drift"
    /\ call.result.action = "flag"

\* C23: a step that computes the temporal recommendation (a call of
\* assess_temporal_health) or reads the temporal index (get_baseline,
\* get_latest, the events and drift endpoints) leaves every table of the store
\* as it was, and the sage_metadata table changes only in the step of an
\* admission that stores the scores SAGE evaluated for the admitted object.
C23_RecommendationIsAdvisory ==
    [][ /\ (\/ call' # call
            \/ /\ outcome' # outcome
               /\ outcome'.op \in {"get_baseline", "get_latest",
                                    "get_kronos_events", "get_drift_analysis"})
           => storeVars' = storeVars
        /\ sage_metadata' # sage_metadata
           => \E t \in Threads :
                 /\ loc[t].op = "ingest"
                 /\ pc[t] = "enforce" /\ pc'[t] = "log_provenance"
                 /\ \A id \in DOMAIN sage_metadata' :
                       id # loc[t].object_id
                       => /\ id \in DOMAIN sage_metadata
                          /\ sage_metadata'[id] = sage_metadata[id]
                 /\ sage_metadata'[loc[t].object_id].trust_score
                       = loc[t].sage.trust_score
                 /\ sage_metadata'[loc[t].object_id].coherence_score
                       = loc[t].sage.coherence_score ]_vars

\* C23 witness: the recommendation for an admitted object came out deny while
\* its stored trust is still the 0.5 it was admitted with, and the drift
\* endpoint has just answered for it
C23_Witness ==
    /\ call.fn = "assess_temporal_health"
    /\ call.result.action = "deny"
    /\ call.result.requires_validation
    /\ call.args.object_id \in DOMAIN sage_metadata
    /\ sage_metadata[call.args.object_id].trust_score = 500
    /\ outcome.op = "get_drift_analysis"
    /\ outcome.status = "ok"
    /\ outcome.object_id = call.args.object_id

\* C24 (as the specification states it): once an object has a baseline event,
\* get_baseline returns that same event after every further event written for
\* the object, whatever its type and timestamp.
C24_BaselineIsImmutable ==
    [][ \A id \in StoredIds :
           get_baseline(kronos_events, id) # <<>>
           => get_baseline(kronos_events', id) = get_baseline(kronos_events, id)
      ]_vars

C27_PersistedObjectHasTrail ==
    (outcome.op = "ingest" /\ outcome.object_id # NoId)
    => \E i \in 1..Len(provenance) : provenance[i].object_id = outcome.object_id

\* C28 (as the specification states it): the chain get_provenance returns for
\* an id is the events of that id in the reverse of the order in which they
\* were appended, whatever their timestamps.
C28_ChainIsReverseOfAppendOrder ==
    \A id \in {provenance[i].object_id : i \in 1..Len(provenance)} :
        LET appended == SelectSeq(provenance, LAMBDA row : row.object_id = id)
            chain == get_provenance(provenance, id)
        IN  /\ Len(chain) = Len(appended)
            /\ \A k \in 1..Len(chain) :
                  chain[k].id = appended[Len(appended) + 1 - k].id

\* C29: with two admissions interleaving, no step changes or removes an
\* existing row of the objects, vectors, sage_metadata, provenance or
\* kronos_events table, and an admission that returns has written, for its own
\* object, the object row of its request, the vector it embedded, the scores
\* SAGE gave it, one ledger event and one baseline event with that vector and
\* those scores, as it does when it runs alone.
C29_ConcurrentAdmissionsDoNotConflict ==
    [][ /\ Len(objects') >= Len(objects)
        /\ \A i \in 1..Len(objects) : objects'[i] = objects[i]
        /\ \A id \in DOMAIN vectors :
              id \in DOMAIN vectors' /\ vectors'[id] = vectors[id]
        /\ \A id \in DOMAIN sage_metadata :
              id \in DOMAIN sage_metadata' /\ sage_metadata'[id] = sage_metadata[id]
        /\ Len(provenance') >= Len(provenance)
        /\ \A i \in 1..Len(provenance) : provenance'[i] = provenance[i]
        /\ Len(kronos_events') >= Len(kronos_events)
        /\ \A i \in 1..Len(kronos_events) : kronos_events'[i] = kronos_events[i]
        /\ (outcome' # outcome /\ outcome'.op = "ingest" /\ outcome'.status = "ok")
           => LET id == outcome'.object_id
                  sage == outcome'.sage
                  found == get_object(objects', id)
                  events == SelectSeq(provenance', LAMBDA row : row.object_id = id)
                  baselines == SelectSeq(kronos_events',
                                         LAMBDA row : row.object_id = id)
              IN  /\ found # <<>>
                  /\ found[1].object_type = outcome'.object_type
                  /\ found[1].data = outcome'.data
                  /\ id \in DOMAIN vectors'
                  /\ deserialize_vector(vectors'[id].embedding) = outcome'.embedding
                  /\ sage = validate_object([id |-> id,
                                             object_type |-> outcome'.object_type,
                                             data |-> outcome'.data],
                                            outcome'.embedding, NewObjectChain,
                                            clock)
                  /\ id \in DOMAIN sage_metadata'
                  /\ sage_metadata'[id].coherence_score = sage.coherence_score
                  /\ sage_metadata'[id].trust_score = sage.trust_score
                  /\ Len(events) = 1
                  /\ events[1].action = admitted_action(sage.decision)
                  /\ json_loads(events[1].metadata)
                        = admitted_metadata(outcome'.object_type, sage)
                  /\ Len(baselines) = 1
                  /\ baselines[1].event_type = "baseline"
                  /\ baselines[1].vector = tobytes(outcome'.embedding)
                  /\ baselines[1].coherence_score = sage.coherence_score
                  /\ baselines[1].trust_score = sage.trust_score ]_vars

\* C29 witness: an admission returned while the other worker, which created
\* its object first, had stored its scores and not yet its ledger event
C29_Witness ==
    /\ outcome.op = "ingest"
    /\ outcome.status = "ok"
    /\ outcome.object_id = Uuid("obj", 2)
    /\ \E t \in Threads :
          /\ pc[t] = "log_provenance"
          /\ loc[t].object_id = Uuid("obj", 1)
          /\ loc[t].embedding # outcome.embedding

\* C30 (as the specification states it): a shadow.query is never answered with
\* an empty result in place of a failure: the result the shadow ledger emits
\* holds the rows of the ledger that match the query, so that an answer with
\* no row means that the ledger has none.
C30_QueryFailureIsNotAnEmptyResult ==
    [][ emitted' # emitted
        => LET answer == emitted'[Len(emitted')]
               asked == CHOOSE p \in ShadowQueries : p.id = answer.request_id
           IN  answer.topic = "shadow.query_result"
               => answer.results = query_provenance(provenance_log,
                                                    asked.payload.object_id, 100)
      ]_vars

C32_NewObjectIsAlwaysFlagged ==
    /\ \A t \in Threads :
          pc[t] \in {"enforce", "log_provenance", "record_event", "find_relations",
                     "reason"}
          => /\ ~loc[t].sage.raised
             /\ loc[t].sage.trust_score = 500
             /\ loc[t].sage.coherence_score >= 600
             /\ loc[t].sage.decision = "flag"
    /\ (outcome.op = "ingest" /\ outcome.status = "ok")
       => outcome.sage.decision = "flag"
    /\ (outcome.op = "ingest" /\ outcome.status = "error")
       => outcome.error.msg # "SAGE denied object"
    /\ \A i \in 1..Len(provenance) :
          provenance[i].action \notin {"ingested", "denied"}

\* C32 witness: an admission whose coherence of 1.0 is above the allow
\* threshold returned flagged
C32_Witness ==
    /\ outcome.op = "ingest"
    /\ outcome.status = "ok"
    /\ outcome.sage.coherence_score = 1000
    /\ outcome.sage.decision = "flag"
    /\ \E i \in 1..Len(provenance) :
          /\ provenance[i].object_id = outcome.object_id
          /\ provenance[i].action = "flagged"

\* C33 (as the specification states it): no two rows of the relations table
\* connect the same unordered pair of objects, after any sequence of ingests and
\* in every interleaving of concurrent ingests.
C33_NoTwoRelationsOfOnePair ==
    \A i, j \in 1..Len(relations) :
        i # j => {relations[i].source_id, relations[i].target_id}
                 # {relations[j].source_id, relations[j].target_id}

\* C34 (as the specification states it): in every state, the states between two
\* store calls of an ingest included, every object with a sage_metadata row has
\* a vector and exactly one provenance event with action ingested or flagged.
C34_MetadataRowHasVectorAndOneEvent ==
    \A id \in DOMAIN sage_metadata :
        /\ id \in DOMAIN vectors
        /\ Cardinality({i \in 1..Len(provenance) :
                            /\ provenance[i].object_id = id
                            /\ provenance[i].action \in {"ingested", "flagged"}}) = 1

\* C35: validated is TRUE exactly when the decision is allow: in every result of
\* validate_object that an ingest carries, in the sage_metadata row the ingest
\* stores (a flagged object is stored with validated 0), and in the ledger,
\* where ingested is written only for an object stored with validated 1 and
\* flagged only for an object stored with validated 0.
C35_ValidatedIffAllow ==
    /\ \A t \in Threads :
          pc[t] \in {"enforce", "log_provenance", "record_event",
                     "find_relations", "reason"}
          => /\ loc[t].sage.validated = (loc[t].sage.decision = "allow")
             /\ pc[t] # "enforce"
                => sage_metadata[loc[t].object_id].validated
                   = int_of(loc[t].sage.decision = "allow")
    /\ \A i \in 1..Len(provenance) :
          /\ provenance[i].action = "ingested"
             => /\ provenance[i].object_id \in DOMAIN sage_metadata
                /\ sage_metadata[provenance[i].object_id].validated = 1
                /\ json_loads(provenance[i].metadata).validated = TRUE
          /\ provenance[i].action = "flagged"
             => /\ provenance[i].object_id \in DOMAIN sage_metadata
                /\ sage_metadata[provenance[i].object_id].validated = 0
                /\ json_loads(provenance[i].metadata).validated = FALSE

C35_Witness ==
    /\ \E i \in 1..Len(provenance) :
          /\ provenance[i].action = "ingested"
          /\ sage_metadata[provenance[i].object_id].validated = 1
    /\ \E i \in 1..Len(provenance) :
          /\ provenance[i].action = "flagged"
          /\ sage_metadata[provenance[i].object_id].validated = 0

\* C36 (as the specification states it): the thresholds reported in a result of
\* validate_object are the ones that decided it: the decision is allow exactly
\* when coherence_score >= thresholds.coherence and trust_score >=
\* thresholds.trust.
C36_ReportedThresholdsDecide ==
    (call.fn = "validate_object" /\ ~call.result.raised)
    => ((call.result.decision = "allow")
        <=> (/\ call.result.coherence_score >= call.result.thresholds.coherence
             /\ call.result.trust_score >= call.result.thresholds.trust))

\* C37 (as the specification states it): the id in the symbolic part of the
\* object returned by reason(object_id) and by ingest is the id of the stored
\* row, whatever the object's data holds, a key named id included.
C37_ReportedIdIsStoredId ==
    (outcome.op \in {"ingest", "reason"} /\ outcome.status = "ok")
    => /\ outcome.result.symbolic.id = outcome.object_id
       /\ get_object_response(outcome.result).object_id = outcome.object_id

\* C38 (as the specification states it): on a store that only _init_database
\* has set up (no call of initialize_kronos_tables), the ingest of an object
\* that passes the ontology check records its baseline event and does not end
\* with an error of the store.
C38_AdmitNeedsNoTemporalSetup ==
    /\ (outcome.op = "ingest" /\ outcome.status = "ok")
       => \E i \in 1..Len(kronos_events) :
             /\ kronos_events[i].object_id = outcome.object_id
             /\ kronos_events[i].event_type = "baseline"
    /\ ~kronos_ready
       => ~(/\ outcome.op = "ingest"
            /\ outcome.status = "error"
            /\ outcome.error.type = "OperationalError")

\* C39: for an object of initial trust at most 1 whose drift is stable, the
\* action of assess_temporal_health never improves as current_time advances
\* (allow, then flag, then deny), and it is deny at every current_time more than
\* trust_half_life_days after created_at.
C39_RecommendationNeverImproves ==
    (/\ call.fn = "assess_temporal_health"
     /\ call.result.drift.status = "stable"
     /\ call.args.initial_trust <= 1000)
    => /\ \A t \in DecayTimes :
             t >= call.args.current_time
             => ActionRank(assess_temporal_health(
                               call.args.object_id, call.args.initial_trust,
                               call.args.created_at, call.args.baseline_vector,
                               call.args.current_vector, t).action)
                <= ActionRank(call.result.action)
       /\ call.args.current_time - call.args.created_at > trust_half_life_days
             => call.result.action = "deny"

C39_Witness ==
    /\ call.fn = "assess_temporal_health"
    /\ call.result.drift.status = "stable"
    /\ call.args.initial_trust = 1000
    /\ call.args.current_time - call.args.created_at = 40
    /\ call.result.action = "deny"
    /\ assess_temporal_health(call.args.object_id, 1000, call.args.created_at,
                              call.args.baseline_vector, call.args.current_vector,
                              call.args.created_at).action = "allow"

\* C40 (as the specification states it): a listener registered on the topic "*"
\* is invoked for every pulse emitted on the bus, whatever the pulse's topic.
C40_WildcardListenerHearsEveryPulse ==
    [][ Len(event_history') > Len(event_history)
        => LET event == event_history'[Len(event_history) + 1]
               wildcard == Get(listeners, "*", <<>>)
           IN  \A i \in 1..Len(wildcard) :
                  \E j \in 1..Len(event.results) :
                     event.results[j].handler = wildcard[i] ]_vars

====
